---- MODULE Spec2Model ----
(***************************************************************************)
(* A model of the local (no-AI) recipe extraction engine of pill/recipes:  *)
(* the ingredient tokenizer (parseIngredientText / parseIngredient), the   *)
(* shared parser (parseIngredients, parseInstructions,                     *)
(* parseRedditRecipeLocal, parseStrombergRecipeLocal) and the mapping of   *)
(* an extracted record to the database shape.                              *)
(*                                                                         *)
(* Texts are TLA+ strings; a character is a string of length 1.  A regular *)
(* expression of the source is an operator that computes the match the     *)
(* JavaScript engine finds (leftmost, greedy or lazy as written).          *)
(* A JavaScript value that may be null, a number or a string is a record   *)
(* [kind |-> "null"], [kind |-> "number", text |-> t] or                   *)
(* [kind |-> "string", text |-> t]; an absent key reads as null.           *)
(***************************************************************************)
EXTENDS Integers, Sequences, FiniteSets, TLC

VARIABLES
    pc,              \* the position in the call: "input", .., "done", "mapped"
    rowKind,         \* "text" (tokenizer input), "reddit" or "stromberg"
    ingredientText,  \* the tokenizer's input line
    comment,         \* RedditRowData.comment
    ingredients,     \* StrombergRowData.ingredients, as the parsed array
    directions,      \* StrombergRowData.directions, as the parsed array
    title,           \* row.title
    row,             \* the ingredients and directions fields of a StrombergRowData
    ingredient,      \* the Ingredient parseIngredientText returned
    esIngredient,    \* the Ingredient parseIngredient returned
    sections,        \* the line buckets of parseRedditRecipeLocal
    autoDetected,    \* whether the auto-detect loop of parseRedditRecipeLocal ran
    recipeData,      \* the RecipeData the shared parser returned
    recipe           \* what mapRecipeExtractionToRecipe made of recipeData

inputVars == <<rowKind, ingredientText, comment, ingredients, directions, title, row>>

engineVars == <<pc, inputVars, ingredient, esIngredient, sections, autoDetected,
                recipeData, recipe>>

\* The Temporal layer: a batch workflow of workflows.ts, the activity it calls
\* (activities.ts) and what the activities read and write.
VARIABLES
    workflow,        \* the workflow function that runs
    wfpc,            \* its position: "loop", "activity", "sleep", "returned"
    batchInput,      \* its input: [startEntry, endEntry, delayBetweenActivitiesMs]
    entryNumber,     \* the loop variable (the index i + 1 in loadRecipesToDb)
    attempt,         \* the attempt of the scheduled activity, 0 when none is scheduled
    results,         \* the result object the workflow builds and returns
    history,         \* the workflow's event history: activity attempts and timers
    csvExists,       \* fs.existsSync(csvFilePath)
    csvRows,         \* the entry numbers findCsvEntry finds a row for
    files,           \* the content of entry_<N>.json per entry, "absent" when none
    recipes,         \* the rows of the recipes table, as the sequence of their titles
    loaders          \* the loadJsonToDb executions in progress, per activity slot

fsVars == <<csvExists, csvRows, files>>

temporalVars == <<workflow, wfpc, batchInput, entryNumber, attempt, results, history,
                  fsVars, recipes, loaders>>

\* The parallel batch workflow (processRecipeBatchLocalParallel) and the database
\* behind RecipeService.create.
VARIABLES
    batches,         \* the batches the workflow has built: number[][]
    batchOffset,     \* the variable i of the loop that builds them
    batchIndex,      \* the index of the batch being processed
    pending,         \* the entries of the batch whose activity has not settled
    settled,         \* the object each settled promise of the batch resolved to
    ingredientRows,  \* the committed rows of the ingredients table, by name
    measurementRows, \* the committed rows of the measurements table, by name
    linkRows,        \* the committed rows of recipe_ingredients: <<title, ingredient>>
    transaction,     \* what the client connection wrote since BEGIN, null outside
    create           \* the call of RecipeService.create: [pc, i, recipe, failedAt, before]

parallelVars == <<batches, batchOffset, batchIndex, pending, settled>>

dbVars == <<ingredientRows, measurementRows, linkRows, transaction, create>>

vars == <<engineVars, temporalVars, parallelVars, dbVars>>

\* no parallel batch runs
ParallelIdle ==
    /\ batches = <<>>
    /\ batchOffset = 0
    /\ batchIndex = 0
    /\ pending = {}
    /\ settled = <<>>

\* no call of create runs and the three tables are empty
DbIdle ==
    /\ ingredientRows = {}
    /\ measurementRows = {}
    /\ linkRows = {}
    /\ transaction = [kind |-> "null"]
    /\ create = [kind |-> "null"]

\* no workflow runs, nothing is on disk or in the table
TemporalIdle ==
    /\ workflow = "none"
    /\ wfpc = "returned"
    /\ batchInput = [startEntry |-> 1, endEntry |-> 0, delayBetweenActivitiesMs |-> 0]
    /\ entryNumber = 1
    /\ attempt = 0
    /\ results = [totalProcessed |-> 0, successful |-> 0, skipped |-> 0, failed |-> 0,
                  results |-> <<>>]
    /\ history = <<>>
    /\ csvExists = FALSE
    /\ csvRows = {}
    /\ files = <<>>
    /\ recipes = <<>>
    /\ loaders = <<>>

-----------------------------------------------------------------------------
(* JavaScript values *)

NullV == [kind |-> "null"]
StrV(s) == [kind |-> "string", text |-> s]
NumV(s) == [kind |-> "number", text |-> s]

-----------------------------------------------------------------------------
(* Characters and the String methods the source uses *)

Digit == {"0", "1", "2", "3", "4", "5", "6", "7", "8", "9"}
LowerLetters == "abcdefghijklmnopqrstuvwxyz"
UpperLetters == "ABCDEFGHIJKLMNOPQRSTUVWXYZ"
Lower == {SubSeq(LowerLetters, i, i) : i \in 1..Len(LowerLetters)}
Upper == {SubSeq(UpperLetters, i, i) : i \in 1..Len(UpperLetters)}
\* \w of a regular expression
WordChar == Lower \cup Upper \cup Digit \cup {"_"}
\* \s of a regular expression, and what trim() removes
Space == {" ", "\t", "\n", "\r"}

At(s, i) == IF i >= 1 /\ i <= Len(s) THEN SubSeq(s, i, i) ELSE ""

substring(s, from) == IF from >= Len(s) THEN "" ELSE SubSeq(s, from + 1, Len(s))

\* the first index >= i whose character is not in cs (Len(s) + 1 if none)
RECURSIVE SpanEnd(_, _, _)
SpanEnd(s, i, cs) ==
    IF i <= Len(s) /\ SubSeq(s, i, i) \in cs THEN SpanEnd(s, i + 1, cs) ELSE i

\* the last index <= i whose character is not in cs (0 if none)
RECURSIVE SpanStart(_, _, _)
SpanStart(s, i, cs) ==
    IF i >= 1 /\ SubSeq(s, i, i) \in cs THEN SpanStart(s, i - 1, cs) ELSE i

trim(s) ==
    LET a == SpanEnd(s, 1, Space)
        b == SpanStart(s, Len(s), Space)
    IN  IF a > b THEN "" ELSE SubSeq(s, a, b)

RECURSIVE IndexIn(_, _, _)
IndexIn(c, str, i) ==
    IF i > Len(str) THEN 0
    ELSE IF SubSeq(str, i, i) = c THEN i ELSE IndexIn(c, str, i + 1)

LowerChar(c) ==
    IF c \in Upper
    THEN LET k == IndexIn(c, UpperLetters, 1) IN SubSeq(LowerLetters, k, k)
    ELSE c

\* character by character (the text is halved to keep the evaluation shallow)
RECURSIVE toLowerCase(_)
toLowerCase(s) ==
    IF Len(s) <= 1 THEN LowerChar(s)
    ELSE LET h == Len(s) \div 2
         IN  toLowerCase(SubSeq(s, 1, h)) \o toLowerCase(SubSeq(s, h + 1, Len(s)))

startsWithAt(s, i, p) ==
    i >= 1 /\ i + Len(p) - 1 <= Len(s) /\ SubSeq(s, i, i + Len(p) - 1) = p

startsWith(s, p) == startsWithAt(s, 1, p)

\* the least element of a set of positions, 0 for the empty set
First(hits) == IF hits = {} THEN 0 ELSE CHOOSE x \in hits : \A y \in hits : x <= y

\* the first index >= i at which p occurs in s, 0 if none
indexOfFrom(s, p, i) ==
    First({j \in i..(Len(s) - Len(p) + 1) : SubSeq(s, j, j + Len(p) - 1) = p})

includes(s, p) == \E j \in 1..(Len(s) - Len(p) + 1) : SubSeq(s, j, j + Len(p) - 1) = p

\* \b between the characters at i and i + 1
WordBoundaryAfter(s, i) == (At(s, i) \in WordChar) # (At(s, i + 1) \in WordChar)

\* text.split('\n')
RECURSIVE splitLines(_)
splitLines(s) ==
    LET k == indexOfFrom(s, "\n", 1)
    IN  IF k = 0 THEN <<s>>
        ELSE <<SubSeq(s, 1, k - 1)>> \o splitLines(substring(s, k))

\* array.join(sep)
RECURSIVE join(_, _)
join(arr, sep) ==
    IF Len(arr) = 0 THEN ""
    ELSE IF Len(arr) = 1 THEN arr[1]
    ELSE arr[1] \o sep \o join(Tail(arr), sep)

-----------------------------------------------------------------------------
(* The Ingredient Tokenizer: parseIngredientText (activities.ts) and        *)
(* parseIngredient (sync_to_elasticsearch.ts)                               *)

COMMON_UNITS ==
    << "cup", "cups", "c", "c.",
       "tablespoon", "tablespoons", "tbsp", "tbsp.", "tbs", "tbs.", "T", "Tbsp", "Tbsp.",
       "teaspoon", "teaspoons", "tsp", "tsp.", "t",
       "pound", "pounds", "lb", "lbs", "lb.", "lbs.",
       "ounce", "ounces", "oz", "oz.",
       "gram", "grams", "g", "g.",
       "kilogram", "kilograms", "kg", "kg.",
       "milliliter", "milliliters", "ml", "ml.",
       "liter", "liters", "l", "l.",
       "quart", "quarts", "qt", "qt.",
       "pint", "pints", "pt", "pt.",
       "gallon", "gallons", "gal", "gal.",
       "pinch", "dash", "handful",
       "can", "cans", "jar", "jars", "package", "packages", "pkg", "box", "boxes",
       "clove", "cloves", "piece", "pieces", "slice", "slices",
       "stick", "sticks", "head", "heads", "bunch", "bunches" >>

\* the unit list parseIngredient builds on every call: the same list
units == COMMON_UNITS

\* /\(([^)]+)\)/ : [start, end] of the first "(" whose next ")" is at least two
\* characters further, <<0, 0>> when there is none
RECURSIVE NotesMatchFrom(_, _)
NotesMatchFrom(s, i) ==
    LET open == indexOfFrom(s, "(", i)
        close == IF open = 0 THEN 0 ELSE indexOfFrom(s, ")", open + 1)
    IN  IF open = 0 \/ close = 0 THEN <<0, 0>>
        ELSE IF close >= open + 2 THEN <<open, close>>
        ELSE NotesMatchFrom(s, open + 1)

NotesMatch(s) == NotesMatchFrom(s, 1)

\* the end of a match of \d+\.?\d* that starts at i (i - 1 when no digit is there)
NumberEnd(s, i) ==
    LET d1 == SpanEnd(s, i, Digit)
        dot == IF d1 > i /\ At(s, d1) = "." THEN d1 + 1 ELSE d1
    IN  IF d1 = i THEN i - 1 ELSE SpanEnd(s, dot, Digit) - 1

\* /^(\d+\.?\d*)\s*-\s*(\d+\.?\d*)/ : <<end of group 1, start of group 2, end of match>>,
\* <<0, 0, 0>> when it does not match
RangeMatch(s) ==
    LET e1 == NumberEnd(s, 1)
        h == SpanEnd(s, e1 + 1, Space)
        b2 == SpanEnd(s, h + 1, Space)
        e2 == NumberEnd(s, b2)
    IN  IF e1 >= 1 /\ At(s, h) = "-" /\ e2 >= b2 THEN <<e1, b2, e2>> ELSE <<0, 0, 0>>

\* the end of a match of \d+\/\d+ that starts at i, 0 when there is none
SimpleFractionEnd(s, i) ==
    LET d1 == SpanEnd(s, i, Digit)
        d2 == SpanEnd(s, d1 + 1, Digit)
    IN  IF d1 > i /\ At(s, d1) = "/" /\ d2 > d1 + 1 THEN d2 - 1 ELSE 0

\* /^(\d+\/\d+|\d+\s+\d+\/\d+)/ : the end of the match, 0 when it does not match
FractionMatch(s) ==
    LET first == SimpleFractionEnd(s, 1)
        d1 == SpanEnd(s, 1, Digit)
        w == SpanEnd(s, d1, Space)
    IN  IF first > 0 THEN first
        ELSE IF d1 > 1 /\ w > d1 THEN SimpleFractionEnd(s, w)
        ELSE 0

\* parseFloat of a match of \d+\.?\d* as the decimal text JSON.stringify writes:
\* no leading zeros, no trailing zeros in the fraction, no bare point
parseFloat(m) ==
    LET d1 == SpanEnd(m, 1, Digit)
        z == SpanEnd(m, 1, {"0"})
        int == IF z >= d1 THEN "0" ELSE SubSeq(m, z, d1 - 1)
        lastNonZero == SpanStart(m, Len(m), {"0"})
        frac == IF lastNonZero > d1 THEN SubSeq(m, d1 + 1, lastNonZero) ELSE ""
    IN  IF frac = "" THEN int ELSE int \o "." \o frac

\* new RegExp(`^${u}\\b`, 'i').test(textLower): every character of u but "." stands
\* for itself without regard to case, "." stands for any character
RECURSIVE UnitPatternAt(_, _, _)
UnitPatternAt(u, textLower, i) ==
    IF i > Len(u) THEN TRUE
    ELSE /\ i <= Len(textLower)
         /\ \/ At(u, i) = "." /\ At(textLower, i) \notin {"\n", "\r"}
            \/ At(u, i) # "." /\ LowerChar(At(u, i)) = LowerChar(At(textLower, i))
         /\ UnitPatternAt(u, textLower, i + 1)

unitRegexTest(u, textLower) ==
    UnitPatternAt(u, textLower, 1) /\ WordBoundaryAfter(textLower, Len(u))

\* the index in unitList of the first unit whose regex matches, 0 when none does
RECURSIVE FirstUnit(_, _, _)
FirstUnit(unitList, textLower, k) ==
    IF k > Len(unitList) THEN 0
    ELSE IF unitRegexTest(unitList[k], textLower) THEN k
    ELSE FirstUnit(unitList, textLower, k + 1)

\* text.replace(/^[s\.]?\s*/, '')
StripPluralOrPeriod(s) ==
    LET a == IF At(s, 1) \in {"s", "."} THEN 2 ELSE 1
    IN  substring(s, SpanEnd(s, a, Space) - 1)

\* a notes step that reports the note and leaves it in the text; the notes
\* property of the tokenizer tells it from ExtractNotes
ExtractNotesInPlace(text) ==
    LET m == NotesMatch(text)
    IN  IF m[1] = 0 THEN <<NullV, text>>
        ELSE <<StrV(SubSeq(text, m[1] + 1, m[2] - 1)), text>>

\* the notes step: <<notes, text>>
ExtractNotes(text) ==
    LET m == NotesMatch(text)
    IN  IF m[1] = 0 THEN <<NullV, text>>
        ELSE <<StrV(SubSeq(text, m[1] + 1, m[2] - 1)),
               trim(SubSeq(text, 1, m[1] - 1) \o substring(text, m[2]))>>

\* a quantity step that keeps the lower end of a range, as a number; the range
\* property of the tokenizer tells it from ExtractQuantity
ExtractQuantityLowerEnd(text) ==
    LET r == RangeMatch(text)
        f == FractionMatch(text)
        n == NumberEnd(text, 1)
    IN  IF r[3] > 0
        THEN <<NumV(parseFloat(SubSeq(text, 1, r[1]))), trim(substring(text, r[3]))>>
        ELSE IF f > 0
        THEN <<StrV(trim(SubSeq(text, 1, f))), trim(substring(text, f))>>
        ELSE IF n >= 1
        THEN <<NumV(parseFloat(SubSeq(text, 1, n))), trim(substring(text, n))>>
        ELSE <<NullV, text>>

\* a quantity step that tries the plain number before the fraction; the order
\* property of the tokenizer tells it from ExtractQuantity
ExtractQuantityNumberFirst(text) ==
    LET r == RangeMatch(text)
        f == FractionMatch(text)
        n == NumberEnd(text, 1)
    IN  IF r[3] > 0
        THEN <<StrV(SubSeq(text, 1, r[1]) \o "-" \o SubSeq(text, r[2], r[3])),
               trim(substring(text, r[3]))>>
        ELSE IF n >= 1
        THEN <<NumV(parseFloat(SubSeq(text, 1, n))), trim(substring(text, n))>>
        ELSE IF f > 0
        THEN <<StrV(trim(SubSeq(text, 1, f))), trim(substring(text, f))>>
        ELSE <<NullV, text>>

\* the quantity step (range, else fraction, else number): <<quantity, text>>
ExtractQuantity(text) ==
    LET r == RangeMatch(text)
        f == FractionMatch(text)
        n == NumberEnd(text, 1)
    IN  IF r[3] > 0
        THEN <<StrV(SubSeq(text, 1, r[1]) \o "-" \o SubSeq(text, r[2], r[3])),
               trim(substring(text, r[3]))>>
        ELSE IF f > 0
        THEN <<StrV(trim(SubSeq(text, 1, f))), trim(substring(text, f))>>
        ELSE IF n >= 1
        THEN <<NumV(parseFloat(SubSeq(text, 1, n))), trim(substring(text, n))>>
        ELSE <<NullV, text>>

\* a unit step that reports the unit and leaves it in the text; the separation
\* property of the tokenizer tells it from ExtractUnit
ExtractUnitInPlace(unitList, text) ==
    LET k == FirstUnit(unitList, toLowerCase(text), 1)
    IN  IF k = 0 THEN <<NullV, text>> ELSE <<StrV(unitList[k]), text>>

\* the unit step over a unit list: <<unit, text>>
ExtractUnit(unitList, text) ==
    LET k == FirstUnit(unitList, toLowerCase(text), 1)
    IN  IF k = 0 THEN <<NullV, text>>
        ELSE <<StrV(unitList[k]),
               StripPluralOrPeriod(trim(substring(text, Len(unitList[k]))))>>

Tokenize(unitList, ingredientLine) ==
    LET n == ExtractNotes(trim(ingredientLine))
        q == ExtractQuantity(n[2])
        u == ExtractUnit(unitList, q[2])
    IN  [name |-> trim(u[2]), quantity |-> q[1], unit |-> u[1], notes |-> n[1]]

parseIngredientText(line) == Tokenize(COMMON_UNITS, line)

parseIngredient(line) == Tokenize(units, line)

-----------------------------------------------------------------------------
(* shared_parser.ts: parseIngredients and parseInstructions                 *)
(* The en dash, the em dash and the bullet of the source's character        *)
(* classes are not characters of a TLA+ string: the classes are modelled    *)
(* over the ASCII characters they hold.                                     *)

Bullet == {"*", "-", "+"}

\* s.replace(/^[\*\-\+•]\s*/, '')
StripBullet(s) ==
    IF At(s, 1) \in Bullet THEN substring(s, SpanEnd(s, 2, Space) - 1) ELSE s

\* /^(.+?)\s*[-]\s*(.+)$/ : the index of the hyphen the match splits at, 0 when
\* it does not match (the first hyphen that has a character before and after it)
DashMatch(s) ==
    LET h == indexOfFrom(s, "-", 2)
    IN  IF h > 0 /\ h < Len(s) THEN h ELSE 0

\* the first index of a "-" or a ":" in s, 0 when there is none
FirstSeparator(s) ==
    LET d == indexOfFrom(s, "-", 1)
        c == indexOfFrom(s, ":", 1)
    IN  IF d = 0 THEN c ELSE IF c = 0 THEN d ELSE IF d < c THEN d ELSE c

\* s.split(/\s*[-]\s*|\s*:\s*/)
RECURSIVE splitSeparators(_)
splitSeparators(s) ==
    LET p == FirstSeparator(s)
    IN  IF p = 0 THEN <<s>>
        ELSE <<SubSeq(s, 1, SpanStart(s, p - 1, Space))>>
             \o splitSeparators(substring(s, SpanEnd(s, p + 1, Space) - 1))

\* the unit alternation of the amount regex, in its order
AMOUNT_UNITS ==
    << "cup", "tbsp", "tsp", "oz", "lb", "gram", "ml", "c.", "tsp.", "tbsp.",
       "tablespoon", "teaspoon", "ounce", "pound", "kilogram", "liter",
       "g", "kg", "l", "ml", "cl", "dl" >>

\* the index of the first alternative of alts that occurs in lower at i, 0 if none
RECURSIVE FirstAlternativeAt(_, _, _, _)
FirstAlternativeAt(alts, lower, i, k) ==
    IF k > Len(alts) THEN 0
    ELSE IF startsWithAt(lower, i, alts[k]) THEN k
    ELSE FirstAlternativeAt(alts, lower, i, k + 1)

\* /^(\d+(?:\/\d+)?(?:\s+\d+\/\d+)?(?:\s*(?:cup|...|dl))?\s*)/i : the length of the
\* match, 0 when it does not match
AmountMatch(s) ==
    LET d1 == SpanEnd(s, 1, Digit)
        d2 == SpanEnd(s, d1 + 1, Digit)
        a == IF At(s, d1) = "/" /\ d2 > d1 + 1 THEN d2 ELSE d1
        w == SpanEnd(s, a, Space)
        f == IF w > a THEN SimpleFractionEnd(s, w) ELSE 0
        b == IF f > 0 THEN f + 1 ELSE a
        w2 == SpanEnd(s, b, Space)
        k == FirstAlternativeAt(AMOUNT_UNITS, toLowerCase(s), w2, 1)
        c == IF k > 0 THEN w2 + Len(AMOUNT_UNITS[k]) ELSE b
    IN  IF d1 = 1 THEN 0 ELSE SpanEnd(s, c, Space) - 1

\* the separator split, then the amount regex: what both variants do with a line
\* that the hyphen regex did not take
SplitOrAmount(s) ==
    LET parts == splitSeparators(s)
        m == AmountMatch(s)
    IN  IF Len(parts) >= 2
        THEN [amount |-> trim(parts[1]), name |-> trim(join(Tail(parts), " "))]
        ELSE IF m > 0
        THEN [amount |-> trim(SubSeq(s, 1, m)), name |-> trim(substring(s, m))]
        ELSE [amount |-> "", name |-> s]

\* the body of the loop of parseIngredients for one trimmed line of length >= 3
ParsedIngredientOf(trimmed) ==
    LET cleaned == trim(StripBullet(trimmed))
        h == DashMatch(cleaned)
    IN  IF h > 0
        THEN [amount |-> trim(SubSeq(cleaned, 1, h - 1)),
              name |-> trim(substring(cleaned, h))]
        ELSE SplitOrAmount(cleaned)

RECURSIVE ParseIngredientLines(_)
ParseIngredientLines(lines) ==
    IF Len(lines) = 0 THEN <<>>
    ELSE LET trimmed == trim(Head(lines))
         IN  (IF Len(trimmed) < 3 THEN <<>> ELSE <<ParsedIngredientOf(trimmed)>>)
             \o ParseIngredientLines(Tail(lines))

parseIngredients(ingredientsText) == ParseIngredientLines(splitLines(ingredientsText))

\* s.replace(/^\d+\.?\s*/, '')
StripNumbering(s) ==
    LET d == SpanEnd(s, 1, Digit)
        dot == IF At(s, d) = "." THEN d + 1 ELSE d
    IN  IF d = 1 THEN s ELSE substring(s, SpanEnd(s, dot, Space) - 1)

\* s.replace(/DD(.*?)DD/g, '$1') for a delimiter DD: every pair of delimiters,
\* left to right, is removed and what it encloses is kept
RECURSIVE StripPairs(_, _)
StripPairs(s, d) ==
    LET i == indexOfFrom(s, d, 1)
        j == IF i = 0 THEN 0 ELSE indexOfFrom(s, d, i + Len(d))
    IN  IF i = 0 \/ j = 0 THEN s
        ELSE SubSeq(s, 1, i - 1) \o SubSeq(s, i + Len(d), j - 1)
             \o StripPairs(substring(s, j + Len(d) - 1), d)

\* s.replace(/^\*+|\*+$/g, '')
StripOuterAsterisks(s) ==
    LET a == SpanEnd(s, 1, {"*"})
        b == SpanStart(s, Len(s), {"*"})
    IN  IF a > b THEN "" ELSE SubSeq(s, a, b)

\* the markdown steps both variants apply after the numbering is removed
StripMarkdown(s) ==
    trim(StripOuterAsterisks(StripPairs(StripPairs(StripPairs(s, "**"), "*"), "~~")))

\* the loop of parseInstructions for one trimmed line of length >= 10
CleanInstruction(trimmed) == StripMarkdown(StripBullet(StripNumbering(trimmed)))

MIN_INSTRUCTION_LENGTH == 10

\* a loop that emits a cleaned line of the minimum length itself; the length
\* property of the instructions tells it from ParseInstructionLines
RECURSIVE ParseInstructionLinesAtLeast(_)
ParseInstructionLinesAtLeast(lines) ==
    IF Len(lines) = 0 THEN <<>>
    ELSE LET cleaned == CleanInstruction(trim(Head(lines)))
         IN  (IF Len(cleaned) >= MIN_INSTRUCTION_LENGTH THEN <<cleaned>> ELSE <<>>)
             \o ParseInstructionLinesAtLeast(Tail(lines))

RECURSIVE ParseInstructionLines(_)
ParseInstructionLines(lines) ==
    IF Len(lines) = 0 THEN <<>>
    ELSE LET trimmed == trim(Head(lines))
             cleaned == CleanInstruction(trimmed)
         IN  (IF Len(trimmed) < MIN_INSTRUCTION_LENGTH \/ ~(Len(cleaned) > MIN_INSTRUCTION_LENGTH)
              THEN <<>> ELSE <<cleaned>>)
             \o ParseInstructionLines(Tail(lines))

parseInstructions(instructionsText) == ParseInstructionLines(splitLines(instructionsText))

-----------------------------------------------------------------------------
(* shared_parser.ts: the Text Segmenter of parseRedditRecipeLocal           *)

\* lower.replace(/[\*\#\-\_\:]/g, '')
RECURSIVE StripHeaderMarks(_)
StripHeaderMarks(s) ==
    IF Len(s) <= 1 THEN (IF s \in {"*", "#", "-", "_", ":"} THEN "" ELSE s)
    ELSE LET h == Len(s) \div 2
         IN  StripHeaderMarks(SubSeq(s, 1, h)) \o StripHeaderMarks(SubSeq(s, h + 1, Len(s)))

INGREDIENT_HEADERS ==
    <<"ingredient", "what you need", "you need", "you'll need", "materials", "items">>

INSTRUCTION_HEADERS ==
    <<"instruction", "direction", "step", "method", "how to", "preparation", "prep",
      "procedure">>

HeaderText(line) == trim(StripHeaderMarks(trim(toLowerCase(line))))

IsIngredientHeader(line) == FirstAlternativeAt(INGREDIENT_HEADERS, HeaderText(line), 1, 1) > 0

IsInstructionHeader(line) ==
    /\ ~IsIngredientHeader(line)
    /\ FirstAlternativeAt(INSTRUCTION_HEADERS, HeaderText(line), 1, 1) > 0

\* the first loop over the lines, from the section cur on
RECURSIVE IdentifySections(_, _, _)
IdentifySections(lines, cur, sec) ==
    IF Len(lines) = 0 THEN sec
    ELSE IF IsIngredientHeader(Head(lines))
    THEN IdentifySections(Tail(lines), "ingredients", sec)
    ELSE IF IsInstructionHeader(Head(lines))
    THEN IdentifySections(Tail(lines), "instructions", sec)
    ELSE IdentifySections(Tail(lines), cur,
                          [sec EXCEPT ![cur] = Append(sec[cur], Head(lines))])

EmptySections == [ingredients |-> <<>>, instructions |-> <<>>, general |-> <<>>]

\* a header pass that begins in the ingredients section; the header-pass property
\* of the segmenter tells it from HeaderPass
HeaderPassFromIngredients(text) ==
    IdentifySections(splitLines(text), "ingredients", EmptySections)

HeaderPass(text) == IdentifySections(splitLines(text), "general", EmptySections)

MEASURE_UNITS == <<"cup", "tbsp", "tsp", "oz", "lb", "gram", "ml", "c.", "tsp.", "tbsp.">>

\* /\d+\.?\d*\s*(cup|tbsp|tsp|oz|lb|gram|ml|c\.|tsp\.|tbsp\.)/i.test(s): a unit
\* that follows, after any whitespace, a digit or the point that ends a number
LooksLikeMeasurement(s) ==
    LET lower == toLowerCase(s)
    IN  \E p \in 2..Len(s) :
            /\ FirstAlternativeAt(MEASURE_UNITS, lower, p, 1) > 0
            /\ LET q == SpanStart(s, p - 1, Space)
               IN  \/ At(s, q) \in Digit
                   \/ At(s, q) = "." /\ At(s, q - 1) \in Digit

COOKING_VERBS ==
    <<"mix", "stir", "add", "pour", "bake", "cook", "heat", "boil", "fry", "blend",
      "combine", "place", "put", "remove", "serve">>

\* /^(mix|stir|...|serve)/i.test(s)
StartsWithCookingVerb(s) == FirstAlternativeAt(COOKING_VERBS, toLowerCase(s), 1, 1) > 0

\* a second loop that keeps a line matching neither pattern in the general bucket;
\* the fallback property of the segmenter tells it from AutoDetectSections
RECURSIVE AutoDetectKeepingRest(_, _)
AutoDetectKeepingRest(lines, sec) ==
    IF Len(lines) = 0 THEN sec
    ELSE LET trimmed == trim(Head(lines))
         IN  IF LooksLikeMeasurement(trimmed)
             THEN AutoDetectKeepingRest(Tail(lines),
                    [sec EXCEPT !.ingredients = Append(@, Head(lines))])
             ELSE IF StartsWithCookingVerb(trimmed)
             THEN AutoDetectKeepingRest(Tail(lines),
                    [sec EXCEPT !.instructions = Append(@, Head(lines))])
             ELSE AutoDetectKeepingRest(Tail(lines),
                    [sec EXCEPT !.general = Append(@, Head(lines))])

\* the second loop, taken when no section was identified
RECURSIVE AutoDetectSections(_, _)
AutoDetectSections(lines, sec) ==
    IF Len(lines) = 0 THEN sec
    ELSE LET trimmed == trim(Head(lines))
         IN  IF LooksLikeMeasurement(trimmed)
             THEN AutoDetectSections(Tail(lines),
                    [sec EXCEPT !.ingredients = Append(@, Head(lines))])
             ELSE IF StartsWithCookingVerb(trimmed)
             THEN AutoDetectSections(Tail(lines),
                    [sec EXCEPT !.instructions = Append(@, Head(lines))])
             ELSE AutoDetectSections(Tail(lines), sec)

\* a test that looks at the ingredients bucket alone; the fallback property of
\* the segmenter tells it from NoExplicitSections
NoIngredientSection(sec) == Len(sec.ingredients) = 0

NoExplicitSections(sec) == Len(sec.ingredients) = 0 /\ Len(sec.instructions) = 0

Segment(text) ==
    LET sec == HeaderPass(text)
    IN  IF NoExplicitSections(sec) THEN AutoDetectSections(splitLines(text), sec) ELSE sec

-----------------------------------------------------------------------------
(* shared_parser.ts: the Metadata Inferencer (difficulty and dietary tags)  *)

DIFFICULTY_WORDS == <<"easy", "medium", "hard", "beginner", "intermediate", "advanced">>

\* the word a match of /(?:p1|p2|..)[seps]+(w1|w2|..)/ at i captures, "" if none
RECURSIVE LabelledWordAt(_, _, _, _, _, _)
LabelledWordAt(text, prefixes, seps, words, i, k) ==
    IF k > Len(prefixes) THEN ""
    ELSE LET b == i + Len(prefixes[k])
             e == SpanEnd(text, b, seps)
             j == FirstAlternativeAt(words, text, e, 1)
         IN  IF startsWithAt(text, i, prefixes[k]) /\ e > b /\ j > 0 THEN words[j]
             ELSE LabelledWordAt(text, prefixes, seps, words, i, k + 1)

\* the word the leftmost match captures, "" when the regex does not match
LabelledWord(text, prefixes, seps, words) ==
    LET starts == {i \in 1..Len(text) :
                     \E k \in 1..Len(prefixes) : startsWithAt(text, i, prefixes[k])}
        hits == {i \in starts : LabelledWordAt(text, prefixes, seps, words, i, 1) # ""}
    IN  IF hits = {} THEN ""
        ELSE LabelledWordAt(text, prefixes, seps, words, First(hits), 1)

\* whether /\b(w1|w2|..)\b/ matches at i
WholeWordAt(text, words, i) ==
    LET j == FirstAlternativeAt(words, text, i, 1)
    IN  /\ j > 0
        /\ At(text, i - 1) \notin WordChar
        /\ At(text, i + Len(words[j])) \notin WordChar

\* the word the leftmost match of /\b(w1|w2|..)\b/ captures, "" if none
WholeWord(text, words) ==
    LET hits == {i \in 1..Len(text) : WholeWordAt(text, words, i)}
    IN  IF hits = {} THEN ""
        ELSE words[FirstAlternativeAt(words, text, First(hits), 1)]

LabelSeps == {":"} \cup Space

\* the four regular expressions of the difficulty cascade, in order
DifficultyMatch(fullText) ==
    LET m1 == LabelledWord(fullText, <<"difficulty">>, LabelSeps, DIFFICULTY_WORDS)
        m2 == LabelledWord(fullText, <<"level", "skill">>, LabelSeps, DIFFICULTY_WORDS)
        m3 == WholeWord(fullText, DIFFICULTY_WORDS)
        m4 == LabelledWord(fullText, <<"super", "very", "really">>, Space, <<"easy", "hard">>)
    IN  IF m1 # "" THEN m1 ELSE IF m2 # "" THEN m2 ELSE IF m3 # "" THEN m3 ELSE m4

includesAny(text, keywords) == \E k \in 1..Len(keywords) : includes(text, keywords[k])

COMPLEXITY_CUES == <<"tiramisu", "layered", "multiple steps", "whip", "fold", "temper">>

\* lines 274-297 of shared_parser.ts: the cascade before the override
LabelledDifficulty(fullText) ==
    LET m == DifficultyMatch(fullText)
    IN  IF m # "" THEN StrV(toLowerCase(m))
        ELSE IF includesAny(fullText, <<"simple", "quick", "basic">>) THEN StrV("easy")
        ELSE IF includesAny(fullText, <<"complex", "advanced", "challenging">>) THEN StrV("hard")
        ELSE NullV

\* a difficulty without the override; the override property tells it from
\* RedditDifficulty
DifficultyWithoutOverride(fullText) == LabelledDifficulty(fullText)

\* lines 299-303: the override
RedditDifficulty(fullText) ==
    IF includesAny(fullText, COMPLEXITY_CUES) THEN StrV("medium")
    ELSE LabelledDifficulty(fullText)

StrombergDifficulty(combinedText) ==
    LET m == LabelledWord(combinedText, <<"difficulty">>, LabelSeps, DIFFICULTY_WORDS)
    IN  IF m # "" THEN StrV(toLowerCase(m))
        ELSE IF includesAny(combinedText, <<"simple", "quick">>) THEN StrV("easy")
        ELSE IF includesAny(combinedText, <<"complex", "advanced">>) THEN StrV("hard")
        ELSE NullV

REDDIT_DIETARY_KEYWORDS ==
    <<"vegan", "vegetarian", "gluten-free", "dairy-free", "nut-free", "soy-free",
      "keto", "paleo", "low-carb", "high-protein", "raw", "organic", "halal", "kosher",
      "sugar-free", "low-sodium", "fat-free", "lactose-free", "egg-free", "shellfish-free">>

STROMBERG_DIETARY_KEYWORDS ==
    <<"vegan", "vegetarian", "gluten-free", "dairy-free", "nut-free", "soy-free",
      "keto", "paleo", "low-carb", "high-protein", "raw", "organic", "halal", "kosher">>

ArrV(items) == [kind |-> "array", items |-> items]

\* a loop that stops at the first keyword the text includes; the dietary tags
\* property tells it from DietaryTags
DietaryTagsFirstMatch(text, keywords) ==
    LET present(k) == includes(text, k)
        list == SelectSeq(keywords, present)
    IN  IF Len(list) > 0 THEN ArrV(<<Head(list)>>) ELSE NullV

\* the loop that pushes every keyword the text includes, and the null for none
DietaryTags(text, keywords) ==
    LET present(k) == includes(text, k)
        list == SelectSeq(keywords, present)
    IN  IF Len(list) > 0 THEN ArrV(list) ELSE NullV

\* parseInt of a run of digits, as JSON.stringify writes the number
parseInt(m) ==
    LET z == SpanEnd(m, 1, {"0"})
    IN  IF z > Len(m) THEN "0" ELSE SubSeq(m, z, Len(m))

\* the index after a match of \d+(?:\s*-\s*\d+)? that begins at q (q when text has
\* no digit there)
CountEnd(text, q) ==
    LET d == SpanEnd(text, q, Digit)
        h == SpanEnd(text, d, Space)
        r == SpanEnd(text, h + 1, Space)
    IN  IF d > q /\ At(text, h) = "-" /\ At(text, r) \in Digit
        THEN SpanEnd(text, r, Digit)
        ELSE d

\* what /(?:l1|l2|..)[seps]+(\d+(?:\s*-\s*\d+)?)/ captures in a match that begins
\* at i, "" if there is none
LabelledCountAt(text, labels, seps, i) ==
    LET ends == {i + Len(labels[k]) : k \in {j \in 1..Len(labels) : startsWithAt(text, i, labels[j])}}
        counts == {SpanEnd(text, b, seps) : b \in {e \in ends : At(text, e) \in seps}}
        hits == {q \in counts : At(text, q) \in Digit}
    IN  IF hits = {} THEN "" ELSE SubSeq(text, First(hits), CountEnd(text, First(hits)) - 1)

\* what the leftmost match captures, "" when the regex does not match
LabelledCount(text, labels, seps) ==
    LET hits == {i \in 1..Len(text) : LabelledCountAt(text, labels, seps, i) # ""}
    IN  IF hits = {} THEN "" ELSE LabelledCountAt(text, labels, seps, First(hits))

\* what /(?:p1|p2|..)\s+(\d+)\s*(?:n1|n2|..)/ captures in a match that begins at
\* i, "" if there is none; without prefixes the regex is /(\d+)\s*(?:n1|n2|..)/
CountBeforeNounAt(text, prefixes, nouns, i) ==
    LET ends == {i + Len(prefixes[k]) :
                   k \in {j \in 1..Len(prefixes) : startsWithAt(text, i, prefixes[j])}}
        counts == IF Len(prefixes) = 0 THEN {i}
                  ELSE {SpanEnd(text, b, Space) : b \in {e \in ends : At(text, e) \in Space}}
        hits == {q \in counts :
                   /\ At(text, q) \in Digit
                   /\ FirstAlternativeAt(nouns, text,
                         SpanEnd(text, SpanEnd(text, q, Digit), Space), 1) > 0}
    IN  IF hits = {} THEN ""
        ELSE SubSeq(text, First(hits), SpanEnd(text, First(hits), Digit) - 1)

CountBeforeNoun(text, prefixes, nouns) ==
    LET hits == {i \in 1..Len(text) : CountBeforeNounAt(text, prefixes, nouns, i) # ""}
    IN  IF hits = {} THEN "" ELSE CountBeforeNounAt(text, prefixes, nouns, First(hits))

SERVINGS_LABELS ==
    <<"serves", "serve", "servings", "serving", "yields", "yield", "makes", "make">>
SERVING_NOUNS == <<"serving", "people", "portion">>
PIECE_NOUNS == <<"cluster", "cookie", "ball", "piece">>

\* servingsMatch[1].includes('-') ? servingsMatch[1] : parseInt(servingsMatch[1])
ServingsValue(m) == IF includes(m, "-") THEN StrV(m) ELSE NumV(parseInt(m))

\* lines 179-198 of shared_parser.ts: the five regular expressions, in order
ServingsMatch(fullText) ==
    LET m1 == LabelledCount(fullText, SERVINGS_LABELS, LabelSeps)
        m2 == LabelledCount(fullText, <<"servings", "serving">>, LabelSeps)
        m3 == CountBeforeNoun(fullText, <<"makes", "make">>, SERVING_NOUNS)
        m4 == CountBeforeNoun(fullText, <<"for", "feeds", "feed">>, <<"people", "serving">>)
        m5 == CountBeforeNoun(fullText, <<>>, SERVING_NOUNS)
    IN  IF m1 # "" THEN m1 ELSE IF m2 # "" THEN m2 ELSE IF m3 # "" THEN m3
        ELSE IF m4 # "" THEN m4 ELSE m5

\* lines 202-218: the inference from pan size, recipe type or pieces
InferredServings(fullText) ==
    IF includesAny(fullText, <<"9x13", "13x9">>) THEN NumV("12")
    ELSE IF includesAny(fullText, <<"8x8", "square pan">>) THEN NumV("8")
    ELSE IF includesAny(fullText, <<"loaf pan", "bread">>) THEN NumV("10")
    ELSE IF includesAny(fullText, <<"clusters", "cookies", "balls">>)
    THEN LET piecesMatch == CountBeforeNoun(fullText, <<>>, PIECE_NOUNS)
         IN  IF piecesMatch # "" THEN NumV(parseInt(piecesMatch)) ELSE NullV
    ELSE IF includesAny(fullText, <<"pizza", "pie">>) THEN NumV("8")
    ELSE IF includesAny(fullText, <<"soup", "stew">>) THEN NumV("6")
    ELSE NullV

\* lines 179-219
RedditServings(fullText) ==
    LET servingsMatch == ServingsMatch(fullText)
    IN  IF servingsMatch # "" THEN ServingsValue(servingsMatch)
        ELSE InferredServings(fullText)

\* lines 458-462
StrombergServings(combinedText) ==
    LET servingsMatch == LabelledCount(combinedText, SERVINGS_LABELS, LabelSeps)
    IN  IF servingsMatch # "" THEN ServingsValue(servingsMatch) ELSE NullV

-----------------------------------------------------------------------------
(* shared_parser.ts: the description of the comment variant                 *)

\* the least length a description line must exceed
MIN_DESCRIPTION_LENGTH == 30
\* the length the description from the general bucket is cut to
MAX_DESCRIPTION_LENGTH == 500

SECTION_WORDS == <<"ingredients", "directions", "instructions", "method">>

\* the condition of lines 154-160, on a trimmed line
IsSubstantial(line) ==
    /\ Len(line) > MIN_DESCRIPTION_LENGTH
    /\ ~includesAny(toLowerCase(line), SECTION_WORDS)
    /\ ~(SpanEnd(line, 1, Digit) > 1 /\ At(line, SpanEnd(line, 1, Digit)) = ".")
    /\ ~startsWith(line, "**")
    /\ ~startsWith(line, "-")

\* the loop of lines 153-164 over the trimmed lines: the first substantial one,
\* null when there is none (an empty line is never substantial)
RECURSIVE FirstSubstantial(_)
FirstSubstantial(lines) ==
    IF Len(lines) = 0 THEN NullV
    ELSE IF IsSubstantial(trim(Head(lines))) THEN StrV(trim(Head(lines)))
    ELSE FirstSubstantial(Tail(lines))

\* sections.general.slice(0, 3).join(' ').trim().substring(0, 500) || null
GeneralDescription(general) ==
    LET text == trim(join(SubSeq(general, 1, IF Len(general) < 3 THEN Len(general) ELSE 3), " "))
        cut == IF Len(text) > MAX_DESCRIPTION_LENGTH
               THEN SubSeq(text, 1, MAX_DESCRIPTION_LENGTH) ELSE text
    IN  IF cut = "" THEN NullV ELSE StrV(cut)

\* a description that is always taken from the general bucket; the description
\* property tells it from Description
DescriptionFromGeneral(text, general) == GeneralDescription(general)

\* description || generalDescription
Description(text, general) ==
    LET description == FirstSubstantial(splitLines(text))
    IN  IF description # NullV THEN description ELSE GeneralDescription(general)

-----------------------------------------------------------------------------
(* shared_parser.ts: the two variants of the Recipe Assembler               *)

\* parseRedditRecipeLocal from line 144 on, over the buckets sec
AssembleReddit(sec, text, ttl) ==
    LET fullText == toLowerCase(text)
    IN  [title |-> ttl,
         description |-> Description(text, sec.general),
         ingredients |-> parseIngredients(join(sec.ingredients, "\n")),
         instructions |-> parseInstructions(join(sec.instructions, "\n")),
         servings |-> RedditServings(fullText),
         difficulty |-> RedditDifficulty(fullText),
         dietaryTags |-> DietaryTags(fullText, REDDIT_DIETARY_KEYWORDS)]

parseRedditRecipeLocal(text, ttl) == AssembleReddit(Segment(text), text, ttl)

RECURSIVE MapSplitOrAmount(_)
MapSplitOrAmount(arr) ==
    IF Len(arr) = 0 THEN <<>> ELSE <<SplitOrAmount(Head(arr))>> \o MapSplitOrAmount(Tail(arr))

\* directions.map(..).filter(inst => inst.length > 10)
RECURSIVE CleanDirections(_)
CleanDirections(arr) ==
    IF Len(arr) = 0 THEN <<>>
    ELSE LET cleaned == StripMarkdown(StripNumbering(Head(arr)))
         IN  (IF Len(cleaned) > MIN_INSTRUCTION_LENGTH THEN <<cleaned>> ELSE <<>>)
             \o CleanDirections(Tail(arr))

parseStrombergRecipeLocal(ings, dirs, ttl) ==
    LET combinedText == toLowerCase(join(ings \o dirs, " "))
    IN  [title |-> ttl,
         description |-> NullV,
         ingredients |-> MapSplitOrAmount(ings),
         instructions |-> CleanDirections(dirs),
         servings |-> StrombergServings(combinedText),
         difficulty |-> StrombergDifficulty(combinedText),
         dietaryTags |-> DietaryTags(combinedText, STROMBERG_DIETARY_KEYWORDS)]

-----------------------------------------------------------------------------
(* activities.ts: parseStrombergRecipeLocalActivity, which reads the arrays   *)
(* of a Stromberg row from its JSON strings                                  *)

SyntaxError == [kind |-> "SyntaxError"]
TypeError == [kind |-> "TypeError"]

\* a JSON number without sign or exponent: digits, and a fraction of digits
IsJsonNumber(t) ==
    LET d == SpanEnd(t, 1, Digit)
    IN  /\ d > 1
        /\ \/ d = Len(t) + 1
           \/ At(t, d) = "." /\ d < Len(t) /\ SpanEnd(t, d + 1, Digit) = Len(t) + 1

\* a JSON string without escapes that starts at i: <<its text, the index after its
\* closing quote>>, <<"", 0>> when there is none
JsonStringAt(t, i) ==
    LET close == IF At(t, i) = "\"" THEN indexOfFrom(t, "\"", i + 1) ELSE 0
    IN  IF close = 0 \/ includes(SubSeq(t, i + 1, close - 1), "\\") THEN <<"", 0>>
        ELSE <<SubSeq(t, i + 1, close - 1), close + 1>>

\* the elements of a JSON array of strings from index i on (after "[" or ","), up to
\* the "]" that ends the text: the array, or SyntaxError
RECURSIVE JsonElements(_, _, _)
JsonElements(t, i, items) ==
    LET str == JsonStringAt(t, SpanEnd(t, i, Space))
        next == SpanEnd(t, str[2], Space)
    IN  IF str[2] = 0 THEN SyntaxError
        ELSE IF At(t, next) = "," THEN JsonElements(t, next + 1, Append(items, str[1]))
        ELSE IF At(t, next) = "]" /\ next = Len(t) THEN ArrV(Append(items, str[1]))
        ELSE SyntaxError

\* JSON.parse(text) for the JSON texts a CSV field holds here: null, true, false, a
\* number, a string, an array of strings; SyntaxError for any other text
JSONparse(text) ==
    LET t == trim(text)
        str == JsonStringAt(t, 1)
    IN  IF t = "null" THEN NullV
        ELSE IF t \in {"true", "false"} THEN [kind |-> "boolean", text |-> t]
        ELSE IF IsJsonNumber(t) THEN NumV(t)
        ELSE IF str[2] = Len(t) + 1 THEN StrV(str[1])
        ELSE IF At(t, 1) = "["
        THEN (IF SpanEnd(t, 2, Space) = Len(t) /\ At(t, Len(t)) = "]" THEN ArrV(<<>>)
              ELSE JsonElements(t, 2, <<>>))
        ELSE SyntaxError

\* try { array = JSON.parse(field) } catch (e) { array = [field] }
ParsedOrRaw(field) ==
    IF JSONparse(field) = SyntaxError THEN ArrV(<<field>>) ELSE JSONparse(field)

\* the RecipeData, or the TypeError that ingredients.map / directions.map throws
\* when what JSON.parse returned is not an array
parseStrombergRecipeLocalActivity(r, ttl) ==
    LET ingredientsArray == ParsedOrRaw(r.ingredients)
        directionsArray == ParsedOrRaw(r.directions)
    IN  IF ingredientsArray.kind # "array" \/ directionsArray.kind # "array"
        THEN TypeError
        ELSE parseStrombergRecipeLocal(ingredientsArray.items, directionsArray.items, ttl)

-----------------------------------------------------------------------------
(* activities.ts: processRecipeEntry, processRecipeEntryLocal and            *)
(* loadJsonToDb as functions of what they read.  A result is                *)
(* [success, skipped, error, key]: skipped stands for skipped               *)
(* (alreadyExists in loadJsonToDb), false when the key is absent; key is    *)
(* entryNumber (the place of jsonFilePath in loadJsonToDb); error is ""     *)
(* when the key is absent.  An outcome is the result with the files and     *)
(* the table the call leaves and whether it parsed the row.                 *)

Succeeded(n) == [success |-> TRUE, skipped |-> FALSE, error |-> "", key |-> n]
Skipped(n) == [success |-> TRUE, skipped |-> TRUE, error |-> "", key |-> n]
Failed(n, message) == [success |-> FALSE, skipped |-> FALSE, error |-> message, key |-> n]

\* the catch block of an activity: nothing is written, the error is returned
Caught(n, message, fl, table, hasParsed) ==
    [result |-> Failed(n, message), files |-> fl, recipes |-> table, parsed |-> hasParsed]

\* a processing activity that checks for the output file only after it has parsed
\* the row, and so writes it again; the skip property tells it from
\* ProcessRecipeEntryBody
ProcessWithoutSkip(n, csvThere, rows, fl, table, extracts) ==
    IF n < 1 THEN Caught(n, "Entry number must be >= 1", fl, table, FALSE)
    ELSE IF ~csvThere THEN Caught(n, "CSV file not found", fl, table, FALSE)
    ELSE IF n \notin rows THEN Caught(n, "Entry not found in CSV file", fl, table, FALSE)
    ELSE IF ~extracts THEN Caught(n, "extraction failed", fl, table, TRUE)
    ELSE [result |-> IF fl[n] # "absent" THEN Skipped(n) ELSE Succeeded(n),
          files |-> [fl EXCEPT ![n] = "new"], recipes |-> table, parsed |-> TRUE]

\* processRecipeEntryLocal (and processRecipeEntry once the AI service is known to
\* be configured): extracts says whether the extraction of the row (the parser,
\* the AI call) returns rather than throws
ProcessRecipeEntryBody(n, csvThere, rows, fl, table, extracts) ==
    IF n < 1 THEN Caught(n, "Entry number must be >= 1", fl, table, FALSE)
    ELSE IF ~csvThere THEN Caught(n, "CSV file not found", fl, table, FALSE)
    ELSE IF fl[n] # "absent"
    THEN [result |-> Skipped(n), files |-> fl, recipes |-> table, parsed |-> FALSE]
    ELSE IF n \notin rows THEN Caught(n, "Entry not found in CSV file", fl, table, FALSE)
    ELSE IF ~extracts THEN Caught(n, "extraction failed", fl, table, TRUE)
    ELSE [result |-> Succeeded(n), files |-> [fl EXCEPT ![n] = "new"],
          recipes |-> table, parsed |-> TRUE]

\* title occurs in the table: SELECT id FROM recipes WHERE title = $1 LIMIT 1
RecipeExists(table, ttl) == \E k \in 1..Len(table) : table[k] = ttl

\* loadJsonToDb run without interruption: the JSON file of place n holds the title
\* fl[n]; answers says whether the database answers rather than throws
LoadJsonToDbBody(n, fl, table, answers) ==
    IF fl[n] = "absent" THEN Caught(n, "File not found", fl, table, FALSE)
    ELSE IF ~answers THEN Caught(n, "database error", fl, table, TRUE)
    ELSE IF RecipeExists(table, fl[n])
    THEN [result |-> Skipped(n), files |-> fl, recipes |-> table, parsed |-> TRUE]
    ELSE [result |-> Succeeded(n), files |-> fl, recipes |-> Append(table, fl[n]),
          parsed |-> TRUE]

\* the activity the workflow wf calls, on entry n; env is what the attempt meets:
\* [configured, extracts]
ActivityBody(wf, n, csvThere, rows, fl, table, env) ==
    IF wf = "loadRecipesToDb" THEN LoadJsonToDbBody(n, fl, table, env.extracts)
    ELSE IF wf = "processRecipeBatch" /\ ~env.configured
    THEN Caught(n, "AI Service not configured", fl, table, FALSE)
    ELSE ProcessRecipeEntryBody(n, csvThere, rows, fl, table, env.extracts)

-----------------------------------------------------------------------------
(* workflows.ts: the result object of a batch workflow.  The skipped field  *)
(* is the alreadyExists counter in loadRecipesToDb.                         *)

\* proxyActivities({ retry: { maximumAttempts: 3 } })
maximumAttempts == 3

EmptyResults ==
    [totalProcessed |-> 0, successful |-> 0, skipped |-> 0, failed |-> 0, results |-> <<>>]

\* the try block after the await: count the result and push its record
TryPath(res, result) ==
    [totalProcessed |-> res.totalProcessed + 1,
     successful |-> res.successful + (IF result.success /\ ~result.skipped THEN 1 ELSE 0),
     skipped |-> res.skipped + (IF result.success /\ result.skipped THEN 1 ELSE 0),
     failed |-> res.failed + (IF result.success THEN 0 ELSE 1),
     results |-> Append(res.results, result)]

\* a catch block that counts the failure and pushes no record; the batch
\* property tells it from CatchPath
CatchPathWithoutRecord(res, n, message) ==
    [res EXCEPT !.totalProcessed = @ + 1, !.failed = @ + 1]

\* the catch block: count a failure and push a record for the entry
CatchPath(res, n, message) ==
    [res EXCEPT !.totalProcessed = @ + 1,
                !.failed = @ + 1,
                !.results = Append(@, Failed(n, message))]

-----------------------------------------------------------------------------
(* Bounded inputs *)

\* the largest number of parenthesized groups a tokenizer input line carries
MaxGroups == 2

\* the sequences over pool of length 0 .. n
RECURSIVE SeqsUpTo(_, _)
SeqsUpTo(pool, n) ==
    IF n = 0 THEN {<<>>}
    ELSE LET shorter == SeqsUpTo(pool, n - 1)
         IN  shorter \cup {Append(q, x) : q \in {r \in shorter : Len(r) = n - 1}, x \in pool}

QuantityTexts == {"", "2", "1.5", "2.", "1/2", "1 1/2", "1-2", "1 - 2", "1.5-2"}
GapTexts == {"", " ", " (8 oz) "}
UnitTexts == {"", "cups", "Cup", "c.", "tbsp.", "T", "lbs", "g", "cl"}
RestTexts == {"", "flour", "sugar", "chicken"}
GroupTexts == {" (sifted)", " ()"}

TokenizerLines ==
    {q \o g \o u \o (IF r = "" THEN "" ELSE " " \o r) \o join(n, "") :
        q \in QuantityTexts, g \in GapTexts, u \in UnitTexts, r \in RestTexts,
        n \in SeqsUpTo(GroupTexts, MaxGroups)}

-----------------------------------------------------------------------------
(* The tokenizer as a state machine: one call of each of the two copies on   *)
(* an input line                                                            *)

InitTokenizer ==
    /\ pc = "input"
    /\ rowKind = "text"
    /\ ingredientText \in TokenizerLines
    /\ comment = ""
    /\ ingredients = <<>>
    /\ directions = <<>>
    /\ title = ""
    /\ row = NullV
    /\ TemporalIdle
    /\ ParallelIdle
    /\ DbIdle
    /\ ingredient = NullV
    /\ esIngredient = NullV
    /\ sections = EmptySections
    /\ autoDetected = FALSE
    /\ recipeData = NullV
    /\ recipe = NullV

ParseIngredientText ==
    /\ rowKind = "text"
    /\ ingredient = NullV
    /\ ingredient' = parseIngredientText(ingredientText)
    /\ pc' = IF esIngredient # NullV THEN "done" ELSE pc
    /\ UNCHANGED <<inputVars, esIngredient, sections, autoDetected, recipeData, recipe>>
    /\ UNCHANGED <<temporalVars, parallelVars, dbVars>>

ParseIngredient ==
    /\ rowKind = "text"
    /\ esIngredient = NullV
    /\ esIngredient' = parseIngredient(ingredientText)
    /\ pc' = IF ingredient # NullV THEN "done" ELSE pc
    /\ UNCHANGED <<inputVars, ingredient, sections, autoDetected, recipeData, recipe>>
    /\ UNCHANGED <<temporalVars, parallelVars, dbVars>>

NextTokenizer == ParseIngredientText \/ ParseIngredient

SpecTokenizer == InitTokenizer /\ [][NextTokenizer]_vars

-----------------------------------------------------------------------------
(* activities.ts: what loadJsonToDb makes of an extracted record            *)

\* a difficulty that is loaded as it was extracted; the difficulty property
\* of the loaded recipe tells it from normalizeDifficulty
DifficultyAsExtracted(diff) == diff

\* normalizeDifficulty
normalizeDifficulty(diff) ==
    IF diff = NullV \/ diff.text = "" THEN NullV
    ELSE LET lower == toLowerCase(diff.text)
         IN  IF includesAny(lower, <<"easy", "simple", "beginner">>) THEN StrV("easy")
             ELSE IF includesAny(lower, <<"hard", "difficult", "advanced", "challenging">>)
             THEN StrV("hard")
             ELSE IF includesAny(lower, <<"medium", "moderate", "intermediate">>)
             THEN StrV("medium")
             ELSE NullV

\* a name that is loaded as it was extracted; the placeholder property tells
\* it from IngredientName
NameAsExtracted(ing) == ing.name

\* ing.name || 'Unknown ingredient'
IngredientName(ing) == IF ing.name = "" THEN "Unknown ingredient" ELSE ing.name

\* ing.unit ? { name: ing.unit, .. } : undefined
Measurement(ing) ==
    IF "unit" \in DOMAIN ing /\ ing.unit # NullV /\ ing.unit.text # ""
    THEN ing.unit ELSE NullV

\* the ingredient names, the measurements and the difficulty of
\* mapRecipeExtractionToRecipe (the amounts and the other columns are left out)
mapRecipeExtractionToRecipe(data) ==
    [ingredients |-> [i \in 1..Len(data.ingredients) |->
                        [name |-> IngredientName(data.ingredients[i]),
                         measurement |-> Measurement(data.ingredients[i])]],
     difficulty |-> normalizeDifficulty(data.difficulty)]

-----------------------------------------------------------------------------
(* The local pipeline as a state machine: a row is parsed by the variant of *)
(* its data set (processRecipeEntryLocal), and the record is mapped for the *)
(* database (loadJsonToDb)                                                  *)

\* the largest number of lines of a comment
MaxLines == 3
\* the largest number of elements of the ingredients and of the directions array
MaxArray == 1

\* the title is passed through and never scanned: one title, which names a
\* difficulty word and an override cue
Titles == {"Easy Tiramisu"}

CommentsOver(pool) == {join(ls, "\n") : ls \in SeqsUpTo(pool, MaxLines) \ {<<>>}}

InitOver(pool) ==
    /\ pc = "input"
    /\ rowKind \in {"reddit", "stromberg"}
    /\ ingredientText = ""
    /\ title \in Titles
    /\ IF rowKind = "reddit"
       THEN /\ comment \in CommentsOver(pool)
            /\ ingredients = <<>>
            /\ directions = <<>>
       ELSE /\ comment = ""
            /\ ingredients \in SeqsUpTo(pool, MaxArray)
            /\ directions \in SeqsUpTo(pool, MaxArray)
    /\ row = NullV
    /\ TemporalIdle
    /\ ParallelIdle
    /\ DbIdle
    /\ ingredient = NullV
    /\ esIngredient = NullV
    /\ sections = EmptySections
    /\ autoDetected = FALSE
    /\ recipeData = NullV
    /\ recipe = NullV

\* parseRedditRecipeLocal, lines 100-130
IdentifySectionsStep ==
    /\ pc = "input"
    /\ rowKind = "reddit"
    /\ sections' = HeaderPass(comment)
    /\ pc' = "identified"
    /\ UNCHANGED <<inputVars, ingredient, esIngredient, autoDetected, recipeData, recipe>>
    /\ UNCHANGED <<temporalVars, parallelVars, dbVars>>

\* parseRedditRecipeLocal, lines 132-142
AutoDetectStep ==
    /\ pc = "identified"
    /\ NoExplicitSections(sections)
    /\ sections' = AutoDetectSections(splitLines(comment), sections)
    /\ autoDetected' = TRUE
    /\ pc' = "segmented"
    /\ UNCHANGED <<inputVars, ingredient, esIngredient, recipeData, recipe>>
    /\ UNCHANGED <<temporalVars, parallelVars, dbVars>>

\* parseRedditRecipeLocal, lines 144-413
AssembleRedditStep ==
    /\ \/ pc = "identified" /\ ~NoExplicitSections(sections)
       \/ pc = "segmented"
    /\ recipeData' = AssembleReddit(sections, comment, title)
    /\ pc' = "done"
    /\ UNCHANGED <<inputVars, ingredient, esIngredient, sections, autoDetected, recipe>>
    /\ UNCHANGED <<temporalVars, parallelVars, dbVars>>

ParseStrombergStep ==
    /\ pc = "input"
    /\ rowKind = "stromberg"
    /\ recipeData' = parseStrombergRecipeLocal(ingredients, directions, title)
    /\ pc' = "done"
    /\ UNCHANGED <<inputVars, ingredient, esIngredient, sections, autoDetected, recipe>>
    /\ UNCHANGED <<temporalVars, parallelVars, dbVars>>

MapStep ==
    /\ pc = "done"
    /\ rowKind \in {"reddit", "stromberg"}
    /\ recipe' = mapRecipeExtractionToRecipe(recipeData)
    /\ pc' = "mapped"
    /\ UNCHANGED <<inputVars, ingredient, esIngredient, sections, autoDetected, recipeData>>
    /\ UNCHANGED <<temporalVars, parallelVars, dbVars>>

Next ==
    \/ IdentifySectionsStep
    \/ AutoDetectStep
    \/ AssembleRedditStep
    \/ ParseStrombergStep
    \/ MapStep

SegmenterPool ==
    {"Ingredients:", "**Directions**", "2 cups flour", "salt and pepper",
     "Mix flour and water well", "prepared mustard"}

InitSegmenter == InitOver(SegmenterPool)

SpecSegmenter == InitSegmenter /\ [][Next]_vars

\* lines for the ingredient parser
IngredientPool ==
    {"Ingredients:", "2 cups flour", "1-2 lbs chicken", "1.5 cups sugar", "2 cup",
     "* salt"}

InitIngredients == InitOver(IngredientPool)

SpecIngredients == InitIngredients /\ [][Next]_vars

\* lines whose cleaned text is shorter than, as long as and longer than the minimum
InstructionPool ==
    {"Directions:", "Mix.", "Mix until smooth and creamy", "* Fold it in",
     "**Bake** it now", "1. Stir well"}

InitInstructions == InitOver(InstructionPool)

SpecInstructions == InitInstructions /\ [][Next]_vars

\* instruction lines that carry an ordinal prefix, a bullet or emphasis markers: a
\* prefix, a blank, and the text of the step
OrdinalLines ==
    {<<"1.", "Stir the batter well">>, <<"2)", "Mix until smooth">>,
     <<"3:", "Bake for an hour">>, <<"Step 4:", "Whisk the eggs now">>}

StepPool ==
    {"Directions:", "- Fold in the cream", "**Chill** the ~~dough~~ *well*"}
    \cup {l[1] \o " " \o l[2] : l \in OrdinalLines}

InitSteps == InitOver(StepPool)

SpecSteps == InitSteps /\ [][Next]_vars

\* instruction lines that begin like an ingredient measurement, next to one that
\* does not
MeasurePool ==
    {"Directions:", "2 cups flour, sifted", "1.5 tsp salt to taste",
     "Mix until smooth and creamy"}

InitMeasures == InitOver(MeasurePool)

SpecMeasures == InitMeasures /\ [][Next]_vars

\* lines for the fallback pass: one matching the measurement pattern, one the verb
\* pattern, one both, one neither, and a header
FallbackPool ==
    {"Ingredients:", "2 cups flour", "Add 2 cups flour", "Mix flour and water well",
     "salt and pepper"}

InitFallback == InitOver(FallbackPool)

SpecFallback == InitFallback /\ [][Next]_vars

\* the ingredients and directions fields of a Stromberg row, as the CSV holds them:
\* JSON arrays, text that is not JSON, and JSON that is not an array
RowFields ==
    {"[\"2 cups flour\", \"1 tsp salt\"]", "[ \"Mix until smooth and creamy\" ]", "[]",
     "2 cups flour, 1 tsp salt", "[\"2 cups flour\", ", "", "42", "\"salt\"", "null"}

InitRows ==
    /\ pc = "row"
    /\ rowKind = "stromberg"
    /\ ingredientText = ""
    /\ comment = ""
    /\ ingredients = <<>>
    /\ directions = <<>>
    /\ title \in Titles
    /\ row \in [ingredients : RowFields, directions : RowFields]
    /\ TemporalIdle
    /\ ParallelIdle
    /\ DbIdle
    /\ ingredient = NullV
    /\ esIngredient = NullV
    /\ sections = EmptySections
    /\ autoDetected = FALSE
    /\ recipeData = NullV
    /\ recipe = NullV

\* processRecipeEntryLocal, lines 335-342 and 383-391: the call of
\* parseStrombergRecipeLocalActivity(row); what it throws is caught and the
\* activity returns { success: false } ("failed")
ParseRowStep ==
    /\ pc = "row"
    /\ LET out == parseStrombergRecipeLocalActivity(row, title)
       IN  IF out = TypeError
           THEN /\ pc' = "failed"
                /\ UNCHANGED <<ingredients, directions, recipeData>>
           ELSE /\ pc' = "done"
                /\ ingredients' = ParsedOrRaw(row.ingredients).items
                /\ directions' = ParsedOrRaw(row.directions).items
                /\ recipeData' = out
    /\ UNCHANGED <<rowKind, ingredientText, comment, title, row, ingredient,
                   esIngredient, sections, autoDetected, recipe>>
    /\ UNCHANGED <<temporalVars, parallelVars, dbVars>>

NextRows == ParseRowStep \/ MapStep

SpecRows == InitRows /\ [][NextRows]_vars

-----------------------------------------------------------------------------
(* workflows.ts: processRecipeBatch, processRecipeBatchLocal and            *)
(* loadRecipesToDb.  The three are one loop over the entries (the places    *)
(* 1 .. jsonFilePaths.length in loadRecipesToDb): await the activity under  *)
(* the retry policy, count and push its result, sleep; a rejected await is  *)
(* caught, counted and pushed.  The event history records what the          *)
(* workflow scheduled and what came back.                                   *)

\* the largest entry number of a batch
MaxEntries == 2

\* the number of times the same batch is run
MaxRuns == 2

Workflows == {"processRecipeBatch", "processRecipeBatchLocal", "loadRecipesToDb"}

\* delayBetweenActivitiesMs: none, and the default of processRecipeBatch
Delays == {0, 1000}

\* the titles of the JSON files loadRecipesToDb loads
LoadTitles == {"Easy Tiramisu", "Pad Thai"}

\* the engine is not in use
EngineIdle ==
    /\ pc = "idle"
    /\ rowKind = "none"
    /\ ingredientText = ""
    /\ comment = ""
    /\ ingredients = <<>>
    /\ directions = <<>>
    /\ title = ""
    /\ row = NullV
    /\ ingredient = NullV
    /\ esIngredient = NullV
    /\ sections = EmptySections
    /\ autoDetected = FALSE
    /\ recipeData = NullV
    /\ recipe = NullV

\* a client has started a workflow: client-local.ts and its siblings accept
\* 1 <= startEntry <= endEntry; client-load-db.ts passes the files it found
InitBatch ==
    /\ EngineIdle
    /\ ParallelIdle
    /\ DbIdle
    /\ workflow \in Workflows
    /\ wfpc = "loop"
    /\ batchInput \in [startEntry : 1..MaxEntries, endEntry : 0..MaxEntries,
                        delayBetweenActivitiesMs : Delays]
    /\ IF workflow = "loadRecipesToDb"
       THEN /\ batchInput.startEntry = 1
            /\ csvExists = FALSE
            /\ csvRows = {}
            /\ files \in [1..MaxEntries -> {"absent"} \cup LoadTitles]
            /\ recipes \in {<<>>, <<"Easy Tiramisu">>}
       ELSE /\ batchInput.startEntry <= batchInput.endEntry
            /\ csvExists \in BOOLEAN
            /\ csvRows \in IF csvExists THEN {1..k : k \in 0..MaxEntries} ELSE {{}}
            /\ files \in [1..MaxEntries -> {"absent", "old"}]
            /\ recipes = <<>>
    /\ entryNumber = batchInput.startEntry
    /\ attempt = 0
    /\ results = EmptyResults
    /\ history = <<[type |-> "started", run |-> 1]>>
    /\ loaders = <<>>

\* what an attempt of the activity can meet
Environments(wf) ==
    {env \in [configured : BOOLEAN, extracts : BOOLEAN] :
        wf # "processRecipeBatch" => env.configured}

\* the loop head with entries left: the activity is scheduled
ScheduleActivity ==
    /\ wfpc = "loop"
    /\ entryNumber <= batchInput.endEntry
    /\ wfpc' = "activity"
    /\ attempt' = 1
    /\ history' = Append(history, [type |-> "scheduled", entry |-> entryNumber])
    /\ UNCHANGED <<workflow, batchInput, entryNumber, results, fsVars, recipes, loaders>>
    /\ UNCHANGED <<engineVars, parallelVars, dbVars>>

\* an attempt of the activity runs to its return; the workflow counts the result
\* and sleeps unless this was the last entry or the delay is 0
ActivityReturns ==
    /\ wfpc = "activity"
    /\ \E env \in Environments(workflow) :
          LET out == ActivityBody(workflow, entryNumber, csvExists, csvRows, files,
                                  recipes, env)
              sleeps == /\ entryNumber < batchInput.endEntry
                        /\ batchInput.delayBetweenActivitiesMs > 0
          IN  /\ files' = out.files
              /\ recipes' = out.recipes
              /\ results' = TryPath(results, out.result)
              /\ history' = Append(history,
                    [type |-> "returned", entry |-> entryNumber, attempt |-> attempt,
                     result |-> out.result, parsed |-> out.parsed,
                     before |-> files[entryNumber], after |-> out.files[entryNumber]])
              /\ wfpc' = IF sleeps THEN "sleep" ELSE "loop"
              /\ entryNumber' = IF sleeps THEN entryNumber ELSE entryNumber + 1
    /\ attempt' = 0
    /\ UNCHANGED <<workflow, batchInput, csvExists, csvRows, loaders>>
    /\ UNCHANGED <<engineVars, parallelVars, dbVars>>

\* what an attempt that ends without a result (startToCloseTimeout, the worker is
\* lost) leaves behind: it stopped before it wrote, or after
LostAttempt ==
    \E env \in Environments(workflow), wrote \in BOOLEAN :
        LET out == ActivityBody(workflow, entryNumber, csvExists, csvRows, files,
                                recipes, env)
        IN  /\ files' = IF wrote THEN out.files ELSE files
            /\ recipes' = IF wrote THEN out.recipes ELSE recipes

\* an attempt ends without a result: Temporal schedules the next attempt after the
\* backoff
AttemptFailsAndRetries ==
    /\ wfpc = "activity"
    /\ attempt < maximumAttempts
    /\ LostAttempt
    /\ attempt' = attempt + 1
    /\ history' = Append(history, [type |-> "attemptFailed", entry |-> entryNumber,
                                    attempt |-> attempt])
    /\ UNCHANGED <<workflow, wfpc, batchInput, entryNumber, results, csvExists, csvRows,
                   loaders>>
    /\ UNCHANGED <<engineVars, parallelVars, dbVars>>

\* the last attempt ends without a result: the await rejects and the catch block
\* runs; the loop goes on with the next entry
AwaitRejects ==
    /\ wfpc = "activity"
    /\ attempt = maximumAttempts
    /\ LostAttempt
    /\ results' = CatchPath(results, entryNumber, "Activity task failed")
    /\ history' = Append(history, [type |-> "attemptFailed", entry |-> entryNumber,
                                    attempt |-> attempt])
    /\ attempt' = 0
    /\ wfpc' = "loop"
    /\ entryNumber' = entryNumber + 1
    /\ UNCHANGED <<workflow, batchInput, csvExists, csvRows, loaders>>
    /\ UNCHANGED <<engineVars, parallelVars, dbVars>>

\* await sleep(delayBetweenActivitiesMs) ends
TimerFires ==
    /\ wfpc = "sleep"
    /\ history' = Append(history, [type |-> "timer", entry |-> entryNumber,
                                    ms |-> batchInput.delayBetweenActivitiesMs])
    /\ wfpc' = "loop"
    /\ entryNumber' = entryNumber + 1
    /\ UNCHANGED <<workflow, batchInput, attempt, results, fsVars, recipes, loaders>>
    /\ UNCHANGED <<engineVars, parallelVars, dbVars>>

\* the loop head with no entry left: the workflow returns results
ReturnResults ==
    /\ wfpc = "loop"
    /\ entryNumber > batchInput.endEntry
    /\ wfpc' = "returned"
    /\ UNCHANGED <<workflow, batchInput, entryNumber, attempt, results, history, fsVars,
                   recipes, loaders>>
    /\ UNCHANGED <<engineVars, parallelVars, dbVars>>

\* the number of the workflow execution: every execution has a history of its own
Runs == history[1].run

\* the client starts the same batch again
RunAgain ==
    /\ wfpc = "returned"
    /\ Runs < MaxRuns
    /\ wfpc' = "loop"
    /\ entryNumber' = batchInput.startEntry
    /\ results' = EmptyResults
    /\ history' = <<[type |-> "started", run |-> Runs + 1]>>
    /\ UNCHANGED <<workflow, batchInput, attempt, fsVars, recipes, loaders>>
    /\ UNCHANGED <<engineVars, parallelVars, dbVars>>

NextBatch ==
    \/ ScheduleActivity
    \/ ActivityReturns
    \/ AttemptFailsAndRetries
    \/ AwaitRejects
    \/ TimerFires
    \/ ReturnResults
    \/ RunAgain

SpecBatch == InitBatch /\ [][NextBatch]_vars

-----------------------------------------------------------------------------
(* activities.ts: loadJsonToDb executions that run at the same time (a      *)
(* worker runs up to maxConcurrentActivityExecutions activities, and there  *)
(* may be several workers and workflows).  An execution reads the table     *)
(* at its SELECT and writes it at the COMMIT of RecipeService.create;       *)
(* between the two any other execution may run.                             *)

\* the number of activity slots
MaxLoaders == 3

InitLoad ==
    /\ EngineIdle
    /\ ParallelIdle
    /\ DbIdle
    /\ workflow = "loadRecipesToDb"
    /\ wfpc = "activity"
    /\ batchInput = [startEntry |-> 1, endEntry |-> MaxLoaders, delayBetweenActivitiesMs |-> 0]
    /\ entryNumber = 1
    /\ attempt = 1
    /\ results = EmptyResults
    /\ history = <<>>
    /\ csvExists = FALSE
    /\ csvRows = {}
    /\ files \in [1..MaxLoaders -> LoadTitles]
    /\ recipes \in {<<>>, <<"Easy Tiramisu">>}
    /\ loaders = [w \in 1..MaxLoaders |-> [pc |-> "start", result |-> NullV]]

\* loadJsonToDb, lines 565-590: read the file, SELECT by title, and return
\* alreadyExists when a row came back
LoaderSelects(w) ==
    /\ loaders[w].pc = "start"
    /\ loaders' = [loaders EXCEPT ![w] =
                      IF RecipeExists(recipes, files[w])
                      THEN [pc |-> "done", result |-> Skipped(w)]
                      ELSE [pc |-> "insert", result |-> NullV]]
    /\ UNCHANGED <<workflow, wfpc, batchInput, entryNumber, attempt, results, history,
                   fsVars, recipes>>
    /\ UNCHANGED <<engineVars, parallelVars, dbVars>>

\* loadJsonToDb, lines 592-611: RecipeService.create (BEGIN, INSERT INTO recipes,
\* COMMIT) and the success result
LoaderCreates(w) ==
    /\ loaders[w].pc = "insert"
    /\ recipes' = Append(recipes, files[w])
    /\ loaders' = [loaders EXCEPT ![w] = [pc |-> "done", result |-> Succeeded(w)]]
    /\ UNCHANGED <<workflow, wfpc, batchInput, entryNumber, attempt, results, history,
                   fsVars>>
    /\ UNCHANGED <<engineVars, parallelVars, dbVars>>

\* a query throws (ROLLBACK in create): the catch block returns the failure
LoaderFails(w) ==
    /\ loaders[w].pc \in {"start", "insert"}
    /\ loaders' = [loaders EXCEPT ![w] = [pc |-> "done", result |-> Failed(w, "database error")]]
    /\ UNCHANGED <<workflow, wfpc, batchInput, entryNumber, attempt, results, history,
                   fsVars, recipes>>
    /\ UNCHANGED <<engineVars, parallelVars, dbVars>>

NextLoad ==
    \E w \in 1..MaxLoaders : LoaderSelects(w) \/ LoaderCreates(w) \/ LoaderFails(w)

SpecLoad == InitLoad /\ [][NextLoad]_vars

-----------------------------------------------------------------------------
(* workflows.ts (the copy with the parallel workflows):                     *)
(* processRecipeBatchLocalParallel.  The workflow builds the batches, and    *)
(* for each batch starts the activities of all its entries, awaits them all *)
(* (Promise.all), counts their results and sleeps.                          *)

\* batchSize = 5 in the destructuring of the input: what an omitted batchSize is
DEFAULT_BATCH_SIZE == 5

\* the largest endEntry
MaxParallel == 3
\* the largest batchSize given
MaxBatchSize == 2
\* the number of batches the loop is followed for
MaxBatches == 4

\* the inner loop without the test against endEntry; the batch property tells it
\* from BatchAt
BatchAtUnbounded(input, i) ==
    [j \in 1..(IF input.batchSize < 0 THEN 0 ELSE input.batchSize)
        |-> input.startEntry + i + j - 1]

\* lines 240-243: the batch the inner loop builds at offset i
BatchAt(input, i) ==
    LET n == Cardinality({j \in 0..(input.batchSize - 1) :
                            input.startEntry + i + j <= input.endEntry})
    IN  [j \in 1..n |-> input.startEntry + i + j - 1]

\* what the activity of entry e settles with: a result, or a rejection that the
\* catch block of the callback turns into a failure record
Settlements(e) ==
    {Succeeded(e), Skipped(e), Failed(e, "Entry not found in CSV file"),
     Failed(e, "Activity task failed")}

\* the loop over batchResults, lines 308-322
RECURSIVE UpdateResults(_, _)
UpdateResults(res, batchResults) ==
    IF Len(batchResults) = 0 THEN res
    ELSE UpdateResults(TryPath(res, Head(batchResults)), Tail(batchResults))

ParallelWorkflow == "processRecipeBatchLocalParallel"

\* a client has started the workflow; the workflow takes any input, the shipped
\* client (client-local-parallel.ts) is one of its callers
InitParallel ==
    /\ EngineIdle
    /\ DbIdle
    /\ ParallelIdle
    /\ workflow = ParallelWorkflow
    /\ wfpc = "batching"
    /\ batchInput \in [startEntry : 1..2, endEntry : 0..MaxParallel,
                        batchSize : (-1..MaxBatchSize) \cup {DEFAULT_BATCH_SIZE},
                        delayBetweenBatchesMs : Delays]
    /\ entryNumber = batchInput.startEntry
    /\ attempt = 0
    /\ results = EmptyResults
    /\ history = <<>>
    /\ csvExists = TRUE
    /\ csvRows = {}
    /\ files = <<>>
    /\ recipes = <<>>
    /\ loaders = <<>>

\* const totalEntries = endEntry - startEntry + 1
totalEntries == batchInput.endEntry - batchInput.startEntry + 1

\* one iteration of the loop of lines 239-245
BuildBatch ==
    /\ workflow = ParallelWorkflow
    /\ wfpc = "batching"
    /\ batchOffset < totalEntries
    /\ Len(batches) < MaxBatches
    /\ batches' = Append(batches, BatchAt(batchInput, batchOffset))
    /\ batchOffset' = batchOffset + batchInput.batchSize
    /\ UNCHANGED <<batchIndex, pending, settled>>
    /\ UNCHANGED <<engineVars, temporalVars, dbVars>>

\* the loop ends: i < totalEntries is false
BatchesBuilt ==
    /\ workflow = ParallelWorkflow
    /\ wfpc = "batching"
    /\ batchOffset >= totalEntries
    /\ wfpc' = "loop"
    /\ UNCHANGED <<workflow, batchInput, entryNumber, attempt, results, history, fsVars,
                   recipes, loaders>>
    /\ UNCHANGED <<engineVars, parallelVars, dbVars>>

\* batch.map(async ...): every callback runs to its await, which schedules the
\* activity of its entry, in the order of the batch (lines 255-260)
StartBatch ==
    /\ workflow = ParallelWorkflow
    /\ wfpc = "loop"
    /\ batchIndex < Len(batches)
    /\ LET batch == batches[batchIndex + 1]
       IN  /\ pending' = {batch[k] : k \in 1..Len(batch)}
           /\ settled' = [k \in 1..Len(batch) |-> NullV]
           /\ history' = history \o [k \in 1..Len(batch) |->
                                       [type |-> "scheduled", entry |-> batch[k]]]
    /\ wfpc' = "awaiting"
    /\ UNCHANGED <<workflow, batchInput, entryNumber, attempt, results, fsVars, recipes,
                   loaders>>
    /\ UNCHANGED <<batches, batchOffset, batchIndex>>
    /\ UNCHANGED <<engineVars, dbVars>>

\* the activity of one entry of the batch settles, in any order, and its callback
\* returns the record (lines 257-302)
ActivitySettles ==
    /\ workflow = ParallelWorkflow
    /\ wfpc = "awaiting"
    /\ \E k \in 1..Len(settled) :
          /\ settled[k] = NullV
          /\ LET e == batches[batchIndex + 1][k]
             IN  /\ \E r \in Settlements(e) : settled' = [settled EXCEPT ![k] = r]
                 /\ pending' = pending \ {e}
                 /\ history' = Append(history, [type |-> "returned", entry |-> e])
    /\ UNCHANGED <<workflow, wfpc, batchInput, entryNumber, attempt, results, fsVars,
                   recipes, loaders>>
    /\ UNCHANGED <<batches, batchOffset, batchIndex>>
    /\ UNCHANGED <<engineVars, dbVars>>

\* Promise.all resolves: the results are counted (lines 305-322), and the
\* workflow sleeps between batches when a delay is given (lines 325-328)
CollectBatch ==
    /\ workflow = ParallelWorkflow
    /\ wfpc = "awaiting"
    /\ pending = {}
    /\ results' = UpdateResults(results, settled)
    /\ settled' = <<>>
    /\ IF batchIndex < Len(batches) - 1 /\ batchInput.delayBetweenBatchesMs > 0
       THEN wfpc' = "sleep" /\ batchIndex' = batchIndex
       ELSE wfpc' = "loop" /\ batchIndex' = batchIndex + 1
    /\ UNCHANGED <<workflow, batchInput, entryNumber, attempt, history, fsVars, recipes,
                   loaders>>
    /\ UNCHANGED <<batches, batchOffset, pending>>
    /\ UNCHANGED <<engineVars, dbVars>>

\* the timer of sleep(delayBetweenBatchesMs) fires
BatchTimerFires ==
    /\ workflow = ParallelWorkflow
    /\ wfpc = "sleep"
    /\ history' = Append(history, [type |-> "timer", ms |-> batchInput.delayBetweenBatchesMs])
    /\ batchIndex' = batchIndex + 1
    /\ wfpc' = "loop"
    /\ UNCHANGED <<workflow, batchInput, entryNumber, attempt, results, fsVars, recipes,
                   loaders>>
    /\ UNCHANGED <<batches, batchOffset, pending, settled>>
    /\ UNCHANGED <<engineVars, dbVars>>

\* no batch is left: the workflow returns results
ReturnParallel ==
    /\ workflow = ParallelWorkflow
    /\ wfpc = "loop"
    /\ batchIndex >= Len(batches)
    /\ wfpc' = "returned"
    /\ UNCHANGED <<workflow, batchInput, entryNumber, attempt, results, history, fsVars,
                   recipes, loaders>>
    /\ UNCHANGED <<engineVars, parallelVars, dbVars>>

NextParallel ==
    \/ BuildBatch
    \/ BatchesBuilt
    \/ StartBatch
    \/ ActivitySettles
    \/ CollectBatch
    \/ BatchTimerFires
    \/ ReturnParallel

SpecParallel == InitParallel /\ [][NextParallel]_vars

-----------------------------------------------------------------------------
(* RecipeService.create (workflows.ts, from line 513), with the helpers of  *)
(* services/IngredientService.ts.  create runs BEGIN .. COMMIT on a client   *)
(* it took from the pool; getOrCreateIngredient and getOrCreateMeasurement   *)
(* run their queries with pool.query, each on a connection of its own and   *)
(* committed when it returns.  Every query may throw.                       *)

\* the largest number of ingredients of a recipe
MaxIngredients == 2

IngredientNames == {"flour", "salt"}

\* the measurement of an ingredient, "" when it has no name
MeasurementNames == {"", "cup"}

\* the awaits of create before the COMMIT has been sent
TransactionSteps == {"insertRecipe", "getOrCreateIngredient", "getOrCreateMeasurement", "insertLink"}

\* a call of create with a recipe, on tables that hold some of the names already
InitCreate ==
    /\ EngineIdle
    /\ TemporalIdle
    /\ ParallelIdle
    /\ ingredientRows \in SUBSET IngredientNames
    /\ measurementRows \in SUBSET (MeasurementNames \ {""})
    /\ linkRows = {}
    /\ transaction = NullV
    /\ \E list \in SeqsUpTo([name : IngredientNames, measurement : MeasurementNames],
                             MaxIngredients) :
          create = [pc |-> "begin", i |-> 0, failedAt |-> "",
                    recipe |-> [title |-> "Pad Thai", ingredients |-> list],
                    before |-> [recipes |-> <<>>, ingredientRows |-> ingredientRows,
                                measurementRows |-> measurementRows, linkRows |-> {}]]

\* await client.query('BEGIN')
Begin ==
    /\ create # NullV
    /\ create.pc = "begin"
    /\ transaction' = [recipes |-> <<>>, links |-> {}]
    /\ create' = [create EXCEPT !.pc = "insertRecipe"]
    /\ UNCHANGED <<ingredientRows, measurementRows, linkRows>>
    /\ UNCHANGED <<engineVars, temporalVars, parallelVars>>

\* await client.query(recipeQuery, recipeValues): the row is written in the
\* transaction
InsertRecipe ==
    /\ create # NullV
    /\ create.pc = "insertRecipe"
    /\ transaction' = [transaction EXCEPT !.recipes = Append(@, create.recipe.title)]
    /\ create' = [create EXCEPT !.pc = IF Len(create.recipe.ingredients) > 0
                                       THEN "getOrCreateIngredient" ELSE "commit"]
    /\ UNCHANGED <<ingredientRows, measurementRows, linkRows>>
    /\ UNCHANGED <<engineVars, temporalVars, parallelVars>>

\* IngredientService.getOrCreateIngredient: SELECT by name and, when no row comes
\* back, INSERT; both with pool.query, so the row is committed at once
GetOrCreateIngredient ==
    /\ create # NullV
    /\ create.pc = "getOrCreateIngredient"
    /\ LET item == create.recipe.ingredients[create.i + 1]
       IN  /\ ingredientRows' = ingredientRows \cup {item.name}
           /\ create' = [create EXCEPT !.pc = IF item.measurement # ""
                                              THEN "getOrCreateMeasurement"
                                              ELSE "insertLink"]
    /\ UNCHANGED <<measurementRows, linkRows, transaction>>
    /\ UNCHANGED <<engineVars, temporalVars, parallelVars>>

\* IngredientService.getOrCreateMeasurement, likewise with pool.query
GetOrCreateMeasurement ==
    /\ create # NullV
    /\ create.pc = "getOrCreateMeasurement"
    /\ measurementRows' =
          measurementRows \cup {create.recipe.ingredients[create.i + 1].measurement}
    /\ create' = [create EXCEPT !.pc = "insertLink"]
    /\ UNCHANGED <<ingredientRows, linkRows, transaction>>
    /\ UNCHANGED <<engineVars, temporalVars, parallelVars>>

\* await client.query(INSERT INTO recipe_ingredients ..): written in the
\* transaction; then the next ingredient, or COMMIT
InsertLink ==
    /\ create # NullV
    /\ create.pc = "insertLink"
    /\ transaction' =
          [transaction EXCEPT !.links =
              @ \cup {<<create.recipe.title, create.recipe.ingredients[create.i + 1].name>>}]
    /\ create' = [create EXCEPT !.i = @ + 1,
                                !.pc = IF create.i + 1 < Len(create.recipe.ingredients)
                                       THEN "getOrCreateIngredient" ELSE "commit"]
    /\ UNCHANGED <<ingredientRows, measurementRows, linkRows>>
    /\ UNCHANGED <<engineVars, temporalVars, parallelVars>>

\* await client.query('COMMIT'): what the transaction wrote becomes rows
Commit ==
    /\ create # NullV
    /\ create.pc = "commit"
    /\ recipes' = recipes \o transaction.recipes
    /\ linkRows' = linkRows \cup transaction.links
    /\ transaction' = NullV
    /\ create' = [create EXCEPT !.pc = "getById"]
    /\ UNCHANGED <<ingredientRows, measurementRows>>
    /\ UNCHANGED <<workflow, wfpc, batchInput, entryNumber, attempt, results, history,
                   fsVars, loaders>>
    /\ UNCHANGED <<engineVars, parallelVars>>

\* this.getById(newRecipe.id) returns the recipe, and create returns it
GetById ==
    /\ create # NullV
    /\ create.pc = "getById"
    /\ create' = [create EXCEPT !.pc = "returned"]
    /\ UNCHANGED <<ingredientRows, measurementRows, linkRows, transaction>>
    /\ UNCHANGED <<engineVars, temporalVars, parallelVars>>

\* the query create awaits throws, or getById finds nothing: control is in the
\* catch block
QueryThrows ==
    /\ create # NullV
    /\ create.pc \in TransactionSteps \cup {"begin", "commit", "getById"}
    /\ create' = [create EXCEPT !.pc = "catch", !.failedAt = create.pc]
    /\ UNCHANGED <<ingredientRows, measurementRows, linkRows, transaction>>
    /\ UNCHANGED <<engineVars, temporalVars, parallelVars>>

\* await client.query('ROLLBACK'), client.release(), throw error
Rollback ==
    /\ create # NullV
    /\ create.pc = "catch"
    /\ transaction' = NullV
    /\ create' = [create EXCEPT !.pc = "thrown"]
    /\ UNCHANGED <<ingredientRows, measurementRows, linkRows>>
    /\ UNCHANGED <<engineVars, temporalVars, parallelVars>>

NextCreate ==
    \/ Begin
    \/ InsertRecipe
    \/ GetOrCreateIngredient
    \/ GetOrCreateMeasurement
    \/ InsertLink
    \/ Commit
    \/ GetById
    \/ QueryThrows
    \/ Rollback

SpecCreate == InitCreate /\ [][NextCreate]_vars

\* lines with difficulty labels, difficulty words, override cues and dietary keywords
MetadataPool ==
    {"difficulty: easy", "Level: Beginner", "fold in the cream", "keto, raw and vegan",
     "so simple", "a sugar-free, hard one", "difficulty: advanced"}

InitMetadata == InitOver(MetadataPool)

SpecMetadata == InitMetadata /\ [][Next]_vars

\* lines with servings patterns and with the dish cues of the servings inference
ServingsPool ==
    {"Serves: 4 - 6", "dinner for 2 people", "makes 12 servings", "use a 9x13 pan",
     "a square pan", "banana bread", "24 cookies", "cookies", "3 pieces", "apple pie",
     "a hearty stew"}

\* the largest number of lines of a comment about servings
MaxCues == 2

\* a row of either data set over the lines of pool: a comment of up to n lines, or
\* arrays of up to m elements
InitLines(pool, n, m) ==
    /\ pc = "input"
    /\ rowKind \in {"reddit", "stromberg"}
    /\ ingredientText = ""
    /\ title \in Titles
    /\ IF rowKind = "reddit"
       THEN /\ comment \in {join(ls, "\n") : ls \in SeqsUpTo(pool, n) \ {<<>>}}
            /\ ingredients = <<>>
            /\ directions = <<>>
       ELSE /\ comment = ""
            /\ ingredients \in SeqsUpTo(pool, m)
            /\ directions \in SeqsUpTo(pool, m)
    /\ row = NullV
    /\ TemporalIdle
    /\ ParallelIdle
    /\ DbIdle
    /\ ingredient = NullV
    /\ esIngredient = NullV
    /\ sections = EmptySections
    /\ autoDetected = FALSE
    /\ recipeData = NullV
    /\ recipe = NullV

InitServings == InitLines(ServingsPool, MaxCues, 1)

SpecServings == InitServings /\ [][Next]_vars

\* s, n times
RECURSIVE Repeated(_, _)
Repeated(s, n) == IF n = 0 THEN "" ELSE s \o Repeated(s, n - 1)

\* a list item of 257 characters: two of them exceed the length a description is
\* cut to
LongItem == "- " \o Repeated("stir and taste; ", 16)

\* lines for the description: a paragraph, a long line that begins with a header
\* keyword, one that holds a section word, bullets, a numbered line, a short line
DescriptionPool ==
    {"Directions:", "My grandmother made this every single Sunday",
     "Prep: chop all the vegetables finely first",
     "Mix the dry ingredients into the wet ones slowly",
     "* a bullet with a star and a long enough text",
     "1) a numbered line with a long enough text", "So good", LongItem}

\* the largest number of lines of a comment with a description
MaxParagraphs == 2

InitDescription == InitLines(DescriptionPool, MaxParagraphs, 1)

SpecDescription == InitDescription /\ [][Next]_vars

-----------------------------------------------------------------------------
(* Properties of the Ingredient Tokenizer, under SpecTokenizer              *)

\* what the two copies of the tokenizer have returned so far
TokenizerResults == {r \in {ingredient, esIngredient} : r # NullV}

\* the unit tokens of the input lines that the unit vocabulary holds
RecognizedUnitTexts ==
    {u \in UnitTexts \ {""} :
        \E k \in 1..Len(COMMON_UNITS) : toLowerCase(COMMON_UNITS[k]) = toLowerCase(u)}

\* the <<number, unit token>> pairs a line begins with: the number, at most one
\* blank, the token, and then a blank or the end of the line
NumberAndUnitOf(line) ==
    {p \in (QuantityTexts \ {""}) \X RecognizedUnitTexts :
        \E g \in {"", " "} :
            /\ startsWith(line, p[1] \o g \o p[2])
            /\ At(line, Len(p[1] \o g \o p[2]) + 1) \in Space \cup {""}}

\* tok occurs in s as a token of its own, whatever its case
ContainsToken(s, tok) ==
    \E i \in 1..Len(s) :
        /\ startsWithAt(toLowerCase(s), i, toLowerCase(tok))
        /\ At(s, i - 1) \notin WordChar
        /\ At(s, i + Len(tok)) \notin WordChar

\* C1: for a line that begins with a number followed by a unit token of the
\* vocabulary, both copies of the tokenizer return a quantity and a unit, each
\* in a field of its own and neither null, and the name holds neither a digit of
\* the numeric prefix (the rest of such a line has no digit of its own) nor the
\* unit token.
C1_QuantityAndUnitSeparated ==
    \A r \in TokenizerResults : \A p \in NumberAndUnitOf(ingredientText) :
        /\ r.quantity # NullV
        /\ r.unit # NullV
        /\ \A i \in 1..Len(r.name) : At(r.name, i) \notin Digit
        /\ ~ContainsToken(r.name, p[2])

\* "2 cups flour" has been tokenized by both copies
C1_TwoCupsFlour ==
    /\ ingredientText = "2 cups flour"
    /\ ingredient = [name |-> "flour", quantity |-> NumV("2"), unit |-> StrV("cups"),
                     notes |-> NullV]
    /\ esIngredient = ingredient

\* the numbers and the hyphens the ranges of the input lines are made of
RangeEndTexts == {"1", "2", "1.5"}
RangeHyphenTexts == {"-", " - "}

\* C6: for a line that begins with a numeric range N-M, with or without blanks
\* around the hyphen, both copies of the tokenizer return the quantity as the string
\* "N-M", and the unit and the name are those of the text that follows the range.
C6_RangeQuantityIsString ==
    \A r \in TokenizerResults :
        \A n \in RangeEndTexts, m \in RangeEndTexts, h \in RangeHyphenTexts :
            LET range == n \o h \o m
                rest == Tokenize(COMMON_UNITS, substring(ingredientText, Len(range)))
            IN  (/\ startsWith(ingredientText, range)
                 /\ At(ingredientText, Len(range) + 1) \notin Digit \cup {"."})
                => /\ r.quantity = StrV(n \o "-" \o m)
                   /\ r.unit = rest.unit
                   /\ r.name = rest.name

\* "1-2 lbs chicken" has been tokenized by both copies
C6_OneToTwoPounds ==
    /\ ingredientText = "1-2 lbs chicken"
    /\ ingredient = [name |-> "chicken", quantity |-> StrV("1-2"), unit |-> StrV("lbs"),
                     notes |-> NullV]
    /\ esIngredient = ingredient

\* the parenthesized groups of s: a "(" at i, the next ")" at j, and at least one
\* character between them
GroupsOf(s) ==
    LET opens == {i \in 1..Len(s) : At(s, i) = "("}
        closes == {j \in 1..Len(s) : At(s, j) = ")"}
    IN  {p \in opens \X closes :
            /\ p[2] >= p[1] + 2
            /\ \A j \in closes : ~(p[1] < j /\ j < p[2])}

\* the group of a non-empty set of groups that starts first
FirstGroup(groups) == CHOOSE p \in groups : \A q \in groups : p[1] <= q[1]

\* C7 as stated: for a line with parenthesized text, the tokenizer returns notes and
\* the name holds no parenthesized group.
C7_NotesAlwaysRemoved ==
    \A r \in TokenizerResults :
        GroupsOf(ingredientText) # {}
        => r.notes # NullV /\ GroupsOf(r.name) = {}

\* C7 amended: the tokenizer takes the first parenthesized group only: its content
\* is the notes, it is the one group removed, and every further group of the line
\* stays in the name; a line without a group (a pair "()" with nothing in it is not
\* one) has no notes.
C7_FirstGroupIsNotes ==
    \A r \in TokenizerResults :
        LET groups == GroupsOf(ingredientText)
        IN  IF groups = {} THEN r.notes = NullV
            ELSE /\ r.notes = StrV(SubSeq(ingredientText, FirstGroup(groups)[1] + 1,
                                          FirstGroup(groups)[2] - 1))
                 /\ Cardinality(GroupsOf(r.name)) = Cardinality(groups) - 1

\* a line with two groups has been tokenized: the second group is in the name
C7_SecondGroupStays ==
    /\ ingredientText = "2 cups flour (sifted) (sifted)"
    /\ ingredient # NullV
    /\ ingredient.notes = StrV("sifted")
    /\ ingredient.name = "flour  (sifted)"

\* the rests r for which the line is  <quantity> <unit> r : a number, one blank, a
\* unit token of the vocabulary, one blank, and r, not empty, to the end of the line
RestsOf(line) ==
    {r \in RestTexts \ {""} :
        \E q \in QuantityTexts \ {""}, u \in RecognizedUnitTexts :
            line = q \o " " \o u \o " " \o r}

\* C20: for a line of the form <quantity> <unit> <rest>, with a unit token of the
\* vocabulary and a rest that is not empty and is set off from the unit by a blank,
\* the name both copies of the tokenizer return is the rest, trimmed, whatever
\* character the rest begins with.
C20_NameIsTheRest ==
    \A r \in TokenizerResults : \A rest \in RestsOf(ingredientText) :
        r.name = trim(rest)

\* the quantity text a line begins with: the longest of QuantityTexts
QuantityPrefix(line) ==
    CHOOSE q \in QuantityTexts :
        /\ startsWith(line, q)
        /\ \A p \in QuantityTexts : startsWith(line, p) => Len(p) <= Len(q)

\* the quantity the claim gives for a quantity text: a range is the string of its
\* two ends, a fraction is its string, a decimal is its number, nothing is null
QuantityFor(q) ==
    IF q = "" THEN NullV
    ELSE IF q \in {"1-2", "1 - 2"} THEN StrV("1-2")
    ELSE IF q \in {"1.5-2", "1/2", "1 1/2"} THEN StrV(q)
    ELSE IF q = "2." THEN NumV("2")
    ELSE NumV(q)

\* C21 (SpecTokenizer): the quantity step tries the range, then the fraction, then
\* the decimal at the start of the text and the first match wins: a line that
\* begins with the mixed fraction "1 1/2" yields that string (not the number 1), a
\* line that begins with a range yields the range string, and for a line that
\* begins with none of them the quantity is null and no text is consumed: without
\* a unit the name is the whole line, with a unit the name is what the line holds
\* after a prefix as long as the unit or longer.
C21_FirstQuantityPatternWins ==
    \A r \in TokenizerResults :
        ~includes(ingredientText, "(")
        => /\ r.quantity = QuantityFor(QuantityPrefix(ingredientText))
           /\ r.quantity = NullV
              => /\ r.unit = NullV => r.name = trim(ingredientText)
                 /\ r.unit # NullV
                    => LET line == trim(ingredientText)
                       IN  /\ Len(line) - Len(r.name) >= Len(r.unit.text)
                           /\ r.name = substring(line, Len(line) - Len(r.name))

\* a line that begins with a mixed fraction has been tokenized
C21_MixedFraction ==
    /\ ingredientText = "1 1/2 cups flour"
    /\ ingredient # NullV
    /\ ingredient.quantity = StrV("1 1/2")
    /\ esIngredient # NullV
    /\ esIngredient.quantity = StrV("1 1/2")

-----------------------------------------------------------------------------
(* Properties of the local pipeline                                         *)

parsed == pc \in {"done", "mapped"}

\* C2 (SpecIngredients): every ingredient of an extracted record has a quantity
\* and a unit field, and its name does not begin with a part of the number the
\* line began with.
C2_QuantityAndUnitFields ==
    parsed
    => \A i \in 1..Len(recipeData.ingredients) :
          /\ {"quantity", "unit"} \subseteq DOMAIN recipeData.ingredients[i]
          /\ At(recipeData.ingredients[i].name, 1) \notin Digit \cup {"."}

\* C3 (SpecMetadata): a comment that contains one of the six override cues gets
\* the difficulty "medium", whatever labels and difficulty words it contains.
C3_OverrideIsAbsolute ==
    (/\ parsed
     /\ rowKind = "reddit"
     /\ \E cue \in {"tiramisu", "layered", "multiple steps", "whip", "fold", "temper"} :
            includes(comment, cue))
    => recipeData.difficulty = StrV("medium")

\* a comment with the label "difficulty: easy" and the cue "fold" has been parsed
C3_EasyLabelOverridden ==
    /\ pc = "done"
    /\ comment = "difficulty: easy\nfold in the cream"
    /\ recipeData.difficulty = StrV("medium")

\* a line is a section header
IsHeader(line) == IsIngredientHeader(line) \/ IsInstructionHeader(line)

SectionAt(lines, i) ==
    LET before == {j \in 1..(i - 1) : IsHeader(lines[j])}
    IN  IF before = {} THEN "general"
        ELSE LET last == CHOOSE j \in before : \A k \in before : k <= j
             IN  IF IsIngredientHeader(lines[last]) THEN "ingredients" ELSE "instructions"

\* the positions of the lines that belong in bucket b
PlacesOf(lines, b) ==
    {i \in 1..Len(lines) : ~IsHeader(lines[i]) /\ SectionAt(lines, i) = b}

\* the k-th smallest member of a set of positions
Nth(places, k) == CHOOSE i \in places : Cardinality({j \in places : j < i}) = k - 1

\* C19 (SpecSegmenter): after the header pass (and before any fallback pass), each
\* of the three buckets holds exactly the lines that are not headers and whose most
\* recent preceding header names the bucket (general when no header precedes), as
\* they were and in input order; so every such line is in exactly one bucket and no
\* header line is in any.
C19_HeaderPassBuckets ==
    (pc = "identified")
    => LET lines == splitLines(comment)
       IN  \A b \in {"ingredients", "instructions", "general"} :
              /\ Len(sections[b]) = Cardinality(PlacesOf(lines, b))
              /\ \A k \in 1..Len(sections[b]) :
                    sections[b][k] = lines[Nth(PlacesOf(lines, b), k)]

\* the header pass has put a line before the first header into general and the
\* lines after the ingredients and the directions header into their buckets
C19_ThreeBuckets ==
    /\ pc = "identified"
    /\ comment = "salt and pepper\nIngredients:\n2 cups flour"
    /\ sections = [ingredients |-> <<"2 cups flour">>, instructions |-> <<>>,
                   general |-> <<"salt and pepper">>]

\* the lines the variant of the row cleans into instructions
InstructionLines == IF rowKind = "reddit" THEN sections.instructions ELSE directions

\* x is an element of the sequence q
Among(x, q) == \E i \in 1..Len(q) : q[i] = x

\* C5 (SpecInstructions): in both variants every instruction of an extracted
\* record is longer than 10 characters, trimmed; "Mix." is never one of them and
\* "Mix until smooth and creamy" is one whenever it is a line of the instructions.
C5_InstructionsLongerThanTen ==
    parsed
    => /\ \A i \in 1..Len(recipeData.instructions) :
             Len(trim(recipeData.instructions[i])) > 10
       /\ ~Among("Mix.", recipeData.instructions)
       /\ Among("Mix until smooth and creamy", InstructionLines)
          => Among("Mix until smooth and creamy", recipeData.instructions)

\* a comment with a short and a long instruction line has been parsed
C5_ShortDroppedLongKept ==
    /\ pc = "done"
    /\ comment = "Directions:\nMix.\nMix until smooth and creamy"
    /\ recipeData.instructions = <<"Mix until smooth and creamy">>

\* s begins with an ordinal prefix: digits, after an optional "Step", followed by
\* a period, a parenthesis or a colon
BeginsWithOrdinal(s) ==
    LET a == IF startsWith(toLowerCase(s), "step") THEN SpanEnd(s, 5, Space) ELSE 1
        d == SpanEnd(s, a, Digit)
    IN  d > a /\ At(s, d) \in {".", ")", ":"}

\* C12 (SpecSteps): every instruction of an extracted record is stripped of its
\* ordinal prefix, bullet glyph and emphasis markers: none begins with an ordinal
\* prefix ("1.", "2)", "3:", "Step 4:") or a bullet glyph, none holds a bold,
\* italic or strikethrough marker, and an instruction line that is a prefix, a
\* blank and the text of a step is emitted as that text.
C12_StepsAreStripped ==
    parsed
    => /\ \A i \in 1..Len(recipeData.instructions) :
             LET step == recipeData.instructions[i]
             IN  /\ ~BeginsWithOrdinal(step)
                 /\ At(step, 1) \notin Bullet
                 /\ ~includes(step, "*")
                 /\ ~includes(step, "~~")
       /\ \A l \in OrdinalLines :
             Among(l[1] \o " " \o l[2], InstructionLines)
             => Among(l[2], recipeData.instructions)

\* the text a variant scans for metadata, and its dietary vocabulary
ScannedText ==
    toLowerCase(IF rowKind = "reddit" THEN comment ELSE join(ingredients \o directions, " "))

VocabularyOf(kind) ==
    IF kind = "reddit" THEN REDDIT_DIETARY_KEYWORDS ELSE STROMBERG_DIETARY_KEYWORDS

\* the place of the keyword w in the vocabulary
PlaceIn(vocabulary, w) == CHOOSE k \in 1..Len(vocabulary) : vocabulary[k] = w

\* C8 (SpecMetadata): dietaryTags is null when no keyword of the vocabulary occurs
\* in the text; otherwise it is a list that holds exactly the keywords that occur,
\* each once, in the order of the vocabulary.
C8_DietaryTagsAllInOrder ==
    parsed
    => LET vocabulary == VocabularyOf(rowKind)
           occurring == {k \in 1..Len(vocabulary) : includes(ScannedText, vocabulary[k])}
           tags == recipeData.dietaryTags
       IN  IF occurring = {} THEN tags = NullV
           ELSE /\ tags # NullV
                /\ Len(tags.items) = Cardinality(occurring)
                /\ \A i \in 1..Len(tags.items) :
                      \E k \in occurring : tags.items[i] = vocabulary[k]
                /\ \A i \in 1..Len(tags.items), j \in 1..Len(tags.items) :
                      i < j => PlaceIn(vocabulary, tags.items[i])
                               < PlaceIn(vocabulary, tags.items[j])

\* a comment that names keto, raw and vegan in this order has been parsed
C8_VocabularyOrder ==
    /\ pc = "done"
    /\ comment = "keto, raw and vegan"
    /\ recipeData.dietaryTags = ArrV(<<"vegan", "keto", "raw">>)

Enum == {NullV, StrV("easy"), StrV("medium"), StrV("hard")}

\* C9 as stated: the difficulty of every extracted record is easy, medium, hard
\* or null.
C9_DifficultyInEnum == parsed => recipeData.difficulty \in Enum

\* C9 amended: the difficulty of an extracted record is null or one of the six
\* words of the difficulty patterns (easy, medium, hard, beginner, intermediate,
\* advanced); it is the loaded recipe whose difficulty is easy, medium, hard or
\* none: a value of the enum is loaded as it is, beginner as easy, intermediate as
\* medium and advanced as hard.
C9_DifficultyWordThenEnum ==
    /\ parsed
       => recipeData.difficulty
          \in {NullV} \cup {StrV(DIFFICULTY_WORDS[k]) : k \in 1..Len(DIFFICULTY_WORDS)}
    /\ pc = "mapped"
       => /\ recipe.difficulty \in Enum
          /\ recipeData.difficulty \in Enum => recipe.difficulty = recipeData.difficulty
          /\ recipeData.difficulty = StrV("beginner") => recipe.difficulty = StrV("easy")
          /\ recipeData.difficulty = StrV("intermediate")
             => recipe.difficulty = StrV("medium")
          /\ recipeData.difficulty = StrV("advanced") => recipe.difficulty = StrV("hard")

\* a record with the difficulty "beginner" has been loaded as easy
C9_BeginnerLoadedAsEasy ==
    /\ pc = "mapped"
    /\ recipeData.difficulty = StrV("beginner")
    /\ recipe.difficulty = StrV("easy")

C11_RawStringFallback ==
    (rowKind = "stromberg" /\ pc \in {"done", "mapped", "failed"})
    => /\ pc # "failed"
       /\ recipeData # NullV
       /\ JSONparse(row.ingredients).kind # "array" => ingredients = <<row.ingredients>>
       /\ JSONparse(row.directions).kind # "array" => directions = <<row.directions>>

-----------------------------------------------------------------------------
(* Properties of the batch workflows, under SpecBatch                       *)

\* the events of a type in the history of the workflow execution, in their order
EventsOf(type) == SelectSeq(history, LAMBDA e : e.type = type)

\* the workflow processes CSV entries (it is not the loader)
Processing == workflow \in {"processRecipeBatch", "processRecipeBatchLocal"}

\* C14 as stated: an activity that runs when the output file of its entry exists
\* returns success with skipped = true, has parsed nothing and has left the file
\* as it was.
C14_ExistingFileIsSkipped ==
    Processing
    => \A k \in 1..Len(history) :
          (history[k].type = "returned" /\ history[k].before # "absent")
          => /\ history[k].result = Skipped(history[k].entry)
             /\ ~history[k].parsed
             /\ history[k].after = history[k].before

\* C14 amended (SpecBatch): no step of a processing workflow, in a first run or a
\* later one, changes an output file that exists; an activity that runs when the
\* output file of its entry exists has parsed nothing, and it returns success with
\* skipped = true when the checks that come before the file check pass (the AI
\* service is configured, in processRecipeEntry, and the CSV file exists), the error
\* of the failed check otherwise.
C14_ExistingFileIsKept ==
    [][Processing
       => /\ \A n \in DOMAIN files : files[n] # "absent" => files'[n] = files[n]
          /\ \A k \in 1..Len(history') :
                (history'[k].type = "returned" /\ history'[k].before # "absent")
                => /\ ~history'[k].parsed
                   /\ history'[k].result.success => history'[k].result.skipped
                   /\ csvExists
                      => \/ history'[k].result = Skipped(history'[k].entry)
                         \/ /\ workflow = "processRecipeBatch"
                            /\ history'[k].result.error = "AI Service not configured"]_vars

\* a second run of a batch has found the file that the first run wrote and has
\* skipped the entry
C14_SecondRunSkips ==
    /\ Processing
    /\ Runs = 2
    /\ \E k \in 1..Len(history) :
          /\ history[k].type = "returned"
          /\ history[k].before = "new"
          /\ history[k].result.skipped
          /\ files[history[k].entry] = "new"

\* the number of entries of the batch
EntryCount == batchInput.endEntry - batchInput.startEntry + 1

\* C16 (SpecBatch): whatever the activity returns or throws for each entry, a
\* workflow that has returned has scheduled the activity once for every entry of
\* its range, in ascending order, and its result holds one record per entry, in
\* that order, with totalProcessed = successful + skipped + failed = the number of
\* entries (skipped is the alreadyExists counter in loadRecipesToDb).
C16_EveryEntryOnce ==
    (wfpc = "returned")
    => /\ Len(EventsOf("scheduled")) = EntryCount
       /\ Len(results.results) = EntryCount
       /\ \A k \in 1..EntryCount :
             /\ EventsOf("scheduled")[k].entry = batchInput.startEntry + k - 1
             /\ results.results[k].key = batchInput.startEntry + k - 1
       /\ results.totalProcessed = EntryCount
       /\ results.totalProcessed = results.successful + results.skipped + results.failed

\* a batch has returned after the activity of entry 1 threw and that of entry 2
\* returned a failure result
C16_ThrownThenFailed ==
    /\ wfpc = "returned"
    /\ batchInput.startEntry = 1
    /\ batchInput.endEntry = 2
    /\ results.results[1] = Failed(1, "Activity task failed")
    /\ ~results.results[2].success
    /\ results.results[2].error # "Activity task failed"
    /\ results.failed = 2

\* C17: an activity whose processing or loading fails (the AI call, the CSV read,
\* a missing row, the database) is run again under the retry policy, so a failure
\* that a workflow records comes from the last of maximumAttempts attempts.
C17_FailuresAreRetried ==
    \A k \in 1..Len(history) :
        (history[k].type = "returned" /\ ~history[k].result.success)
        => history[k].attempt = maximumAttempts

\* C18: in processRecipeBatch with a delay d > 0 the workflow sleeps d between any
\* two consecutive activities, whatever the outcome of the first of them, and it
\* does not sleep after the last entry.
C18_SleepBetweenActivities ==
    (workflow = "processRecipeBatch" /\ batchInput.delayBetweenActivitiesMs > 0)
    => /\ \A i, j \in 1..Len(history) :
             (i < j /\ history[i].type = "scheduled" /\ history[j].type = "scheduled")
             => \E k \in (i + 1)..(j - 1) :
                   /\ history[k].type = "timer"
                   /\ history[k].ms = batchInput.delayBetweenActivitiesMs
       /\ \A k \in 1..Len(history) :
             history[k].type = "timer" => history[k].entry < batchInput.endEntry

\* C15: loading skips duplicates by title: after any loadJsonToDb executions,
\* those that run at the same time on several activity slots included, the recipes
\* table holds at most one row per title.
C15_OneRowPerTitle ==
    \A i, j \in 1..Len(recipes) : recipes[i] = recipes[j] => i = j

\* the units an instruction line must not begin with after a number
REJECTED_UNITS == {"cup", "tbsp", "tsp", "oz", "lb", "gram", "ml"}

\* s starts with a number (digits, and digits after a point) followed, after any
\* blanks, by one of the rejected units
BeginsWithMeasurement(s) ==
    LET d == SpanEnd(s, 1, Digit)
        e == IF At(s, d) = "." THEN SpanEnd(s, d + 1, Digit) ELSE d
        f == SpanEnd(s, e, Space)
    IN  /\ d > 1
        /\ \E u \in REJECTED_UNITS : startsWithAt(toLowerCase(s), f, u)

\* C25 (SpecMeasures): no instruction of an extracted record comes from a line
\* that starts with a number followed by cup, tbsp, tsp, oz, lb, gram or ml: no
\* instruction is a part of such a line of the instructions.
C25_MeasurementLinesRejected ==
    parsed
    => \A j \in 1..Len(InstructionLines) :
           BeginsWithMeasurement(trim(InstructionLines[j]))
           => \A i \in 1..Len(recipeData.instructions) :
                  ~includes(InstructionLines[j], recipeData.instructions[i])

\* the lines of a sequence at a set of positions, in their order
LinesAt(lines, places) == [k \in 1..Cardinality(places) |-> lines[Nth(places, k)]]

\* the buckets that hold the line
BucketsOf(line) ==
    {b \in {"ingredients", "instructions", "general"} : Among(line, sections[b])}

\* C26 as stated (SpecFallback): when the fallback pass has run, every line of the
\* comment is in at most one bucket, and a line matching neither pattern is in no
\* bucket, in particular not in general.
C26_AtMostOneBucket ==
    autoDetected
    => \A i \in 1..Len(splitLines(comment)) :
           LET line == splitLines(comment)[i]
           IN  /\ Cardinality(BucketsOf(line)) <= 1
               /\ (~LooksLikeMeasurement(trim(line)) /\ ~StartsWithCookingVerb(trim(line)))
                  => BucketsOf(line) = {}

\* C26 amended (SpecFallback): when the fallback pass has run, the ingredients
\* bucket is the lines matching the measurement pattern, the instructions bucket
\* the lines that match the verb pattern and not the measurement pattern, each as
\* it was and in input order, so the pass adds a line to at most one of the two
\* and a line matching neither to none; the general bucket is what the header pass
\* left: the lines before the first header.
C26_FallbackAddsToOneBucket ==
    autoDetected
    => LET lines == splitLines(comment)
           measures == {i \in 1..Len(lines) : LooksLikeMeasurement(trim(lines[i]))}
           verbs == {i \in 1..Len(lines) : StartsWithCookingVerb(trim(lines[i]))}
       IN  /\ sections.ingredients = LinesAt(lines, measures)
           /\ sections.instructions = LinesAt(lines, verbs \ measures)
           /\ sections.general = LinesAt(lines, PlacesOf(lines, "general"))

\* the fallback pass has run over a line matching neither pattern, one matching
\* both and one matching the verb pattern
C26_BothPatternsToIngredients ==
    /\ pc = "segmented"
    /\ comment = "salt and pepper\nAdd 2 cups flour\nMix flour and water well"
    /\ sections.ingredients = <<"Add 2 cups flour">>
    /\ sections.instructions = <<"Mix flour and water well">>
    /\ sections.general =
          <<"salt and pepper", "Add 2 cups flour", "Mix flour and water well">>

\* C27 (SpecSteps): instruction text is not lost to header detection: in the
\* comment variant a line that follows the header "Directions:" and is an ordinal
\* prefix ("1.", "2)", "3:", "Step 4:"), a blank and a text longer than 10
\* characters has its text in an instruction of the extracted record.
C27_StepLinesSurvive ==
    (parsed /\ rowKind = "reddit")
    => LET lines == splitLines(comment)
       IN  \A i \in 2..Len(lines), l \in OrdinalLines :
               (/\ lines[i - 1] = "Directions:"
                /\ lines[i] = l[1] \o " " \o l[2]
                /\ Len(l[2]) > 10)
               => \E k \in 1..Len(recipeData.instructions) :
                      includes(recipeData.instructions[k], l[2])

\* the servings the dish cues of a text give when they are consulted in order: pan
\* size, bread, a piece-count noun with a leading number, pizza or pie, soup or stew
ServingsByCue(text) ==
    LET pieces == CountBeforeNoun(text, <<>>, PIECE_NOUNS)
    IN  IF includes(text, "9x13") \/ includes(text, "13x9") THEN NumV("12")
        ELSE IF includes(text, "8x8") \/ includes(text, "square pan") THEN NumV("8")
        ELSE IF includes(text, "loaf pan") \/ includes(text, "bread") THEN NumV("10")
        ELSE IF pieces # "" THEN NumV(parseInt(pieces))
        ELSE IF includes(text, "pizza") \/ includes(text, "pie") THEN NumV("8")
        ELSE IF includes(text, "soup") \/ includes(text, "stew") THEN NumV("6")
        ELSE NullV

\* C23 (SpecServings): in the comment variant, when no explicit servings pattern
\* matches, servings is what the first applicable dish cue gives, in the order pan
\* size (12, 8), loaf pan or bread (10), number-prefixed piece noun (the number),
\* pizza or pie (8), soup or stew (6); and when an explicit pattern matches,
\* servings is the explicit value.
C23_ServingsByDishCue ==
    (parsed /\ rowKind = "reddit")
    => LET explicit == ServingsMatch(toLowerCase(comment))
       IN  /\ explicit = "" => recipeData.servings = ServingsByCue(toLowerCase(comment))
           /\ explicit # "" => recipeData.servings = ServingsValue(explicit)

\* C22 (SpecMetadata): the array variant infers metadata as the comment variant
\* does: the servings, difficulty and dietary tags of a record extracted from
\* arrays are those the comment variant extracts from the text the arrays'
\* elements make when joined by blanks.
C22_SameInferencer ==
    (parsed /\ rowKind = "stromberg")
    => LET ofText == parseRedditRecipeLocal(join(ingredients \o directions, " "), title)
       IN  /\ recipeData.servings = ofText.servings
           /\ recipeData.difficulty = ofText.difficulty
           /\ recipeData.dietaryTags = ofText.dietaryTags

\* the non-empty lines of the comment, trimmed
DescLines ==
    LET lines == splitLines(comment)
        places == {i \in 1..Len(lines) : trim(lines[i]) # ""}
    IN  [k \in 1..Cardinality(places) |-> trim(lines[Nth(places, k)])]

\* the first three lines of the general bucket, joined by blanks, trimmed, and cut
\* to 500 characters: the description when no line of the comment is one
FromGeneral ==
    LET first == [k \in 1..(IF Len(sections.general) < 3 THEN Len(sections.general) ELSE 3)
                    |-> sections.general[k]]
        text == trim(join(first, " "))
    IN  IF text = "" THEN NullV
        ELSE StrV(SubSeq(text, 1, IF Len(text) < 500 THEN Len(text) ELSE 500))

\* the description of the record is the first of the lines at the positions
\* fit, and comes from the general bucket when there is none
DescriptionIsFirstOf(fit) ==
    IF fit = {} THEN recipeData.description = FromGeneral
    ELSE recipeData.description = StrV(DescLines[Nth(fit, 1)])

\* C24 as stated (SpecDescription): in the comment variant the description is the
\* first non-empty line longer than 30 characters that the Segmenter does not
\* classify as a header and that does not start with a numbering or a markdown
\* bullet, and the cut general bucket only when there is no such line.
C24_DescriptionSkipsHeaders ==
    (parsed /\ rowKind = "reddit")
    => DescriptionIsFirstOf({k \in 1..Len(DescLines) :
           /\ Len(DescLines[k]) > 30
           /\ ~IsHeader(DescLines[k])
           /\ ~BeginsWithOrdinal(DescLines[k])
           /\ At(DescLines[k], 1) \notin Bullet})

\* C24 amended (SpecDescription): in the comment variant the description is the
\* first non-empty line, trimmed, that is longer than 30 characters, holds none of
\* the words ingredients, directions, instructions, method in any case, and does
\* not begin with digits and a period, with "**" or with "-"; only when there is
\* no such line is it the first 3 lines of the general bucket joined by blanks,
\* trimmed and cut to 500 characters, null if that is empty.
C24_DescriptionSkipsSectionWords ==
    (parsed /\ rowKind = "reddit")
    => DescriptionIsFirstOf({k \in 1..Len(DescLines) :
           LET line == DescLines[k]
               lower == toLowerCase(line)
           IN  /\ Len(line) > 30
               /\ \A w \in {"ingredients", "directions", "instructions", "method"} :
                      ~includes(lower, w)
               /\ \A d \in 1..Len(line) :
                      ~(At(line, d) = "." /\ d > 1 /\ \A j \in 1..(d - 1) : At(line, j) \in Digit)
               /\ SubSeq(line, 1, 2) # "**"
               /\ At(line, 1) # "-"})

\* a comment whose first long line holds a section word and whose second one
\* begins with a header keyword has been parsed: the second one is the description
C24_HeaderKeywordLineDescribes ==
    /\ pc = "done"
    /\ comment = "Mix the dry ingredients into the wet ones slowly\nPrep: chop all the vegetables finely first"
    /\ recipeData.description = StrV("Prep: chop all the vegetables finely first")

\* the entries of the range, in order
EntryRange ==
    [k \in 1..(IF totalEntries < 0 THEN 0 ELSE totalEntries) |-> batchInput.startEntry + k - 1]

\* the entries of the batches, batch after batch
RECURSIVE Flattened(_)
Flattened(bs) == IF Len(bs) = 0 THEN <<>> ELSE Head(bs) \o Flattened(Tail(bs))

\* the entries the workflow has scheduled an activity for, in the order of the
\* history
ScheduledEntries ==
    LET isScheduled(h) == h.type = "scheduled"
        events == SelectSeq(history, isScheduled)
    IN  [k \in 1..Len(events) |-> events[k].entry]

\* the batch an entry of the range belongs to when the batches hold b entries
BatchOf(e, b) == (e - batchInput.startEntry) \div b

\* C28 (SpecParallel): with a batchSize b >= 1 the batches are consecutive, hold
\* between 1 and b entries and together are the range startEntry..endEntry; the
\* activities scheduled so far are a beginning of the range, each entry once, and
\* the whole range when the workflow has returned; at most b activities are in
\* flight; and when an activity of a batch is scheduled, the activity of every
\* entry of the batches before it has returned.
C28_BatchesRunInTurn ==
    (workflow = ParallelWorkflow /\ batchInput.batchSize >= 1)
    => LET b == batchInput.batchSize
       IN  /\ wfpc # "batching"
              => /\ Flattened(batches) = EntryRange
                 /\ \A k \in 1..Len(batches) : Len(batches[k]) \in 1..b
           /\ Len(ScheduledEntries) <= Len(EntryRange)
           /\ ScheduledEntries = SubSeq(EntryRange, 1, Len(ScheduledEntries))
           /\ wfpc = "returned" => ScheduledEntries = EntryRange
           /\ Cardinality(pending) <= b
           /\ \A q \in 1..Len(history) :
                  history[q].type = "scheduled"
                  => \A e \in batchInput.startEntry..batchInput.endEntry :
                         BatchOf(e, b) < BatchOf(history[q].entry, b)
                         => \E p \in 1..(q - 1) :
                                history[p].type = "returned" /\ history[p].entry = e

\* entries 1 to 3 have been processed in batches of 2: entry 2 returned before
\* entry 1, and entry 3 was scheduled after both
C28_ThirdEntryWaits ==
    /\ wfpc = "returned"
    /\ workflow = ParallelWorkflow
    /\ batchInput.batchSize = 2
    /\ batches = <<<<1, 2>>, <<3>>>>
    /\ Len(history) = 6
    /\ [k \in 1..6 |-> <<history[k].type, history[k].entry>>]
         = <<<<"scheduled", 1>>, <<"scheduled", 2>>, <<"returned", 2>>, <<"returned", 1>>,
             <<"scheduled", 3>>, <<"returned", 3>>>>
    /\ results.totalProcessed = 3

\* C29 (SpecParallel): batch construction finishes: every iteration of the loop
\* that builds the batches moves its variable i toward totalEntries, whatever
\* batchSize the workflow was started with.
C29_BatchConstructionAdvances == [][BuildBatch => batchOffset' > batchOffset]_vars

\* the rows of the four tables
Tables ==
    [recipes |-> recipes, ingredientRows |-> ingredientRows,
     measurementRows |-> measurementRows, linkRows |-> linkRows]

\* C30 (SpecCreate): create is all-or-nothing: when a step before the COMMIT has
\* failed (the recipe insert, an ingredient or measurement lookup-or-create, a
\* recipe_ingredients insert) and create has rolled back and thrown, the four
\* tables hold the rows they held before the call.
C30_AllOrNothing ==
    (create # NullV /\ create.pc = "thrown" /\ create.failedAt \in TransactionSteps)
    => Tables = create.before

====
